---- MODULE Spec2Model ----
(***************************************************************************)
(* A model of simple-blog-engine: the build orchestrator (siteBuilder),    *)
(* the configuration loader (configManager) and the template directive     *)
(* engine (templateEngine).                                                *)
(*                                                                         *)
(* Strings are modelled as sequences: a file name or a tag is a sequence   *)
(* of characters, a template text is a sequence of tokens.                 *)
(***************************************************************************)
EXTENDS Integers, Sequences, FiniteSets, TLC

VARIABLES
    \* ---- the build (siteBuilder.buildSite) ----
    input,      \* the world the build reads: config file, post files, about page
    bpc,        \* position of buildSite
    config,     \* configManager's configCache / the config buildSite works with
    posts,      \* the documents returned by loadAllPosts
    tasks,      \* the page-type tasks dispatched by Promise.all
    writes,     \* output writes performed so far: records [path, by]
    errPage,    \* position of buildErrorPage
    logged,     \* console.error lines of the build, by origin
    failures,   \* number of I/O failures injected so far
    \* ---- the template engine (templateEngine.processTemplate) ----
    tpc,        \* position of the template run
    template,   \* template text handed to processTemplate
    data,       \* context handed to processTemplate
    output,     \* text returned by processTemplate
    \* ---- one call of a function of the content pipeline or the paginator ----
    fpc,        \* position of the call: which function has returned
    args,       \* the arguments of the call and the files it reads
    ret         \* what the call returned

bvars == <<input, bpc, config, posts, tasks, writes, errPage, logged, failures>>
tvars == <<tpc, template, data, output>>
fvars == <<fpc, args, ret>>
vars == <<input, bpc, config, posts, tasks, writes, errPage, logged, failures,
          tpc, template, data, output, fpc, args, ret>>

(***************************************************************************)
(* Bounds of the model.                                                    *)
(***************************************************************************)
MaxPosts == 1          \* documents in the posts directory
MaxFailures == 1       \* injected I/O failures per build
MaxPerPage == 1        \* largest postsPerPage a user config sets
MaxListLen == 6        \* longest item list handed to paginateItems
MaxPageSize == 3       \* largest perPage handed to paginateItems
MaxTotalPages == 7     \* largest totalPages handed to calculatePagination
MaxFiles == 3          \* markdown files in the posts directory of loadAllPosts
MaxCalls == 3          \* loadTemplate calls of one run
CACHE_MAX_SIZE == 2    \* capacity of the render cache (50 in markdownProcessor)
MaxTexts == 4          \* distinct markdown texts rendered
MaxRenders == 5        \* renderMarkdown calls of one run
MAX_CACHE_SIZE == 2    \* capacity of the file cache (100 in fileHandler)
cacheTTL == 1          \* life of a file cache entry, in clock ticks
MaxTime == 2           \* clock ticks
MaxTagLen == 2         \* characters of a tag
MaxTagPosts == 2       \* documents carrying tags
MaxDays == 2           \* days over which posts are created
MaxCreates == 4        \* createPost calls
MaxClicks == 3         \* clicks on the theme toggle of one page view
MaxChanges == 4        \* changes of the system colour scheme during one page view

(***************************************************************************)
(* Sequence helpers.                                                       *)
(***************************************************************************)
Range(s) == {s[i] : i \in 1..Len(s)}

\* Math.ceil(n / d) for n >= 0, d >= 1
CeilDiv(n, d) == (n + d - 1) \div d

(***************************************************************************)
(* configManager                                                           *)
(***************************************************************************)
DEFAULT_POSTS_PER_PAGE == 10

\* DEFAULT_CONFIG, reduced to the validated number the build reads
DEFAULT_CONFIG == [postsPerPage |-> DEFAULT_POSTS_PER_PAGE]

\* deepMerge(DEFAULT_CONFIG, userConfig): a key of the user config wins
deepMerge(target, source) ==
    [postsPerPage |-> IF source.hasPostsPerPage
                      THEN source.postsPerPage
                      ELSE target.postsPerPage]

\* validateConfig mutated: the min check of content.postsPerPage is dropped
validateConfigNoMin(cfg) == TRUE

\* validateConfig: content.postsPerPage is a number with min 1
validateConfig(cfg) == cfg.postsPerPage >= 1

\* the config file as loadConfig finds it: unreadable, unparsable, or a
\* user config that may set content.postsPerPage
ConfigFile(file, has, n) == [file |-> file, hasPostsPerPage |-> has, postsPerPage |-> n]

ConfigFiles ==
    {ConfigFile("unreadable", FALSE, 0), ConfigFile("unparsable", FALSE, 0),
     ConfigFile("ok", FALSE, 0)}
    \cup {ConfigFile("ok", TRUE, n) : n \in 0..MaxPerPage}

\* the configuration loadConfig assembles before it validates it: an
\* unreadable or unparsable file is warned about and the defaults are used
mergedConfig(f) ==
    IF f.file = "ok" THEN deepMerge(DEFAULT_CONFIG, f) ELSE DEFAULT_CONFIG

\* loadConfig: "ok" with the merged config, or "throw" on a validation error
loadConfig(f) ==
    IF validateConfig(mergedConfig(f))
    THEN [result |-> "ok", config |-> mergedConfig(f)]
    ELSE [result |-> "throw", config |-> DEFAULT_CONFIG]

(***************************************************************************)
(* Documents, tags and output paths                                        *)
(***************************************************************************)
FileNames == <<(<<"x">>), (<<"y">>), (<<"z">>)>>
TagLists == {<<>>, <<(<<"a">>), (<<"b">>)>>}

\* the documents of a posts directory: distinct file names, any tags
PostLists ==
    UNION {{[i \in 1..n |-> [file |-> FileNames[i], tags |-> tl[i]]] :
              tl \in [1..n -> TagLists]} : n \in 0..MaxPosts}

\* String.replace(/ /g, '_')
ReplaceSpaces(s) == [i \in 1..Len(s) |-> IF s[i] = " " THEN "_" ELSE s[i]]

\* extractTags: the tags in first-occurrence order, each with the posts
\* carrying it in processing order (one entry per occurrence)
RECURSIVE extractTagsFrom(_, _)
extractTagsFrom(ps, acc) ==
    IF ps = <<>> THEN acc
    ELSE LET post == Head(ps)
             addTag(a, tag) ==
                 IF \E i \in 1..Len(a) : a[i].tag = tag
                 THEN [i \in 1..Len(a) |->
                          IF a[i].tag = tag
                          THEN [a[i] EXCEPT !.posts = Append(@, post)]
                          ELSE a[i]]
                 ELSE Append(a, [tag |-> tag, posts |-> <<post>>])
             RECURSIVE addAll(_, _)
             addAll(a, ts) ==
                 IF ts = <<>> THEN a ELSE addAll(addTag(a, Head(ts)), Tail(ts))
         IN extractTagsFrom(Tail(ps), addAll(acc, post.tags))

extractTags(ps) == extractTagsFrom(ps, <<>>)

\* an output path, relative to config.paths.outputDir
Path(dir, name, n, file) == [dir |-> dir, name |-> name, n |-> n, file |-> file]

HomePath == Path("", <<>>, 0, "index.html")
PagePath(k) == Path("page", <<>>, k, "index.html")
PostPath(post) == Path("posts", post.file, 0, "index.html")
TagPath(tag) == Path("tags", ReplaceSpaces(tag), 0, "index.html")
TagsIndexPath == Path("tags", <<>>, 0, "index.html")
AboutPath == Path("about", <<>>, 0, "index.html")
ErrorPath == Path("", <<>>, 0, "404.html")
SitemapPath == Path("", <<>>, 0, "sitemap.xml")
AssetPaths == <<Path("js", <<>>, 0, "theme.js"), Path("css", <<>>, 0, "style.css")>>

\* paginateItems: the page numbers 1..ceil(n / perPage); with perPage = 0
\* the page count is NaN for no items (no page) and Infinity otherwise
paginatePages(n, perPage) == IF perPage = 0 THEN {} ELSE 1..CeilDiv(n, perPage)

\* paginateItems loops for ever on an infinite page count
paginateHangs(n, perPage) == perPage = 0 /\ n > 0

(***************************************************************************)
(* The paginator: siteBuilder.paginateItems and templateEngine's           *)
(* calculatePagination and generatePagination.  A URL is basePath ('/',    *)
(* dir "" and n 0) or basePath + "page/" + n + "/".                        *)
(***************************************************************************)
Max(a, b) == IF a >= b THEN a ELSE b
Min(a, b) == IF a <= b THEN a ELSE b

Url(dir, n) == [dir |-> dir, n |-> n]

basePath == Url("", 0)

\* `${basePath}page/${n}/`
pageUrl(n) == Url("page", n)

Link(kind, url) == [kind |-> kind, url |-> url]

\* calculatePagination mutated: the range is never widened
calculatePaginationNarrow(currentPage, totalPages) ==
    LET startPage == Max(1, currentPage - 2)
        endPage == Min(totalPages, currentPage + 2)
    IN [startPage |-> startPage, endPage |-> endPage,
        showFirst |-> startPage > 1, showFirstEllipsis |-> startPage > 2,
        showLast |-> endPage < totalPages,
        showLastEllipsis |-> endPage < totalPages - 1]

\* calculatePagination({currentPage, totalPages, range = 2})
calculatePagination(currentPage, totalPages) ==
    LET start0 == Max(1, currentPage - 2)
        end0 == Min(totalPages, currentPage + 2)
        widen == end0 - start0 < 4 /\ totalPages > 4
        endPage == IF widen /\ start0 = 1 THEN Min(start0 + 4, totalPages) ELSE end0
        startPage == IF widen /\ start0 # 1 /\ end0 = totalPages
                     THEN Max(end0 - 4, 1) ELSE start0
    IN [startPage |-> startPage, endPage |-> endPage,
        showFirst |-> startPage > 1, showFirstEllipsis |-> startPage > 2,
        showLast |-> endPage < totalPages,
        showLastEllipsis |-> endPage < totalPages - 1]

\* generatePagination mutated: the previous link of page 2 is page/1/
generatePaginationPrevIsPage(currentPage, totalPages) ==
    IF totalPages <= 1 THEN {}
    ELSE LET p == calculatePagination(currentPage, totalPages)
         IN {Link("prev", pageUrl(currentPage - 1)) : x \in {y \in {1} : currentPage > 1}}
            \cup {Link("first", basePath) : x \in {y \in {1} : p.showFirst}}
            \cup {Link("number", IF i = 1 THEN basePath ELSE pageUrl(i)) :
                      i \in (p.startPage..p.endPage) \ {currentPage}}
            \cup {Link("last", pageUrl(totalPages)) : x \in {y \in {1} : p.showLast}}
            \cup {Link("next", pageUrl(currentPage + 1)) :
                      x \in {y \in {1} : currentPage < totalPages}}

\* generatePagination({currentPage, totalPages, basePath}): the links it
\* builds (prevLink, the links of pageLinks, nextLink); '' is no link
generatePagination(currentPage, totalPages) ==
    IF totalPages <= 1 THEN {}
    ELSE LET p == calculatePagination(currentPage, totalPages)
         IN {Link("prev", IF currentPage = 2 THEN basePath
                          ELSE pageUrl(currentPage - 1)) :
                 x \in {y \in {1} : currentPage > 1}}
            \cup {Link("first", basePath) : x \in {y \in {1} : p.showFirst}}
            \cup {Link("number", IF i = 1 THEN basePath ELSE pageUrl(i)) :
                      i \in (p.startPage..p.endPage) \ {currentPage}}
            \cup {Link("last", pageUrl(totalPages)) : x \in {y \in {1} : p.showLast}}
            \cup {Link("next", pageUrl(currentPage + 1)) :
                      x \in {y \in {1} : currentPage < totalPages}}

\* Array.slice(start, end)
slice(items, start, end) == SubSeq(items, start + 1, Min(end, Len(items)))

\* paginateItems mutated: a window starts at the index its predecessor ended at
paginateItemsOverlap(items, perPage) ==
    [page \in 1..CeilDiv(Len(items), perPage) |->
        [page |-> page,
         itemsForPage |-> slice(items, Max(0, (page - 1) * perPage - 1), page * perPage),
         pagination |-> {},
         isFirstPage |-> page = 1]]

\* paginateItems(items, {perPage, basePath})
paginateItems(items, perPage) ==
    LET totalPages == CeilDiv(Len(items), perPage)
    IN [page \in 1..totalPages |->
          LET start == (page - 1) * perPage
              end == start + perPage
          IN [page |-> page,
              itemsForPage |-> slice(items, start, end),
              pagination |-> IF totalPages > 1
                             THEN generatePagination(page, totalPages) ELSE {},
              isFirstPage |-> page = 1]]

(***************************************************************************)
(* siteBuilder: the page-type tasks                                        *)
(***************************************************************************)
\* the tasks of buildSite's Promise.all, in dispatch order
TaskNames ==
    <<"generateStaticAssets", "buildHomePage", "buildPostPages", "buildTagPages",
      "buildTagsIndexPage", "buildAboutPage", "buildSitemap">>

Tasks == Range(TaskNames)

\* a task: its promise (idle, running, ok, failed), the writes in flight and
\* the writes it issues one after the other once those in flight are done
Task(status, pending, todo) == [status |-> status, pending |-> pending, todo |-> todo]

IdleTask == Task("idle", {}, <<>>)

\* the posts loadAllPosts returns: the directory's documents, or none when
\* the directory cannot be listed
loadAllPosts(in) == IF in.listable THEN in.posts ELSE <<>>

\* the writes a task has in flight when its first await is reached
FirstWrites(t, ps, cfg, in) ==
    CASE t = "generateStaticAssets" -> {Head(AssetPaths)}
      [] t = "buildHomePage" ->
            {IF k = 1 THEN HomePath ELSE PagePath(k) :
                 k \in paginatePages(Len(ps), cfg.postsPerPage)}
      [] t = "buildPostPages" -> {PostPath(ps[i]) : i \in 1..Len(ps)}
      [] t = "buildTagPages" ->
            {TagPath(extractTags(ps)[i].tag) : i \in 1..Len(extractTags(ps))}
      [] t = "buildTagsIndexPage" -> {TagsIndexPath}
      [] t = "buildAboutPage" -> IF in.about THEN {AboutPath} ELSE {}
      [] t = "buildSitemap" -> {SitemapPath}

\* the writes a task awaits one after the other after its first ones
LaterWrites(t) ==
    CASE t = "generateStaticAssets" -> Tail(AssetPaths)
      [] t = "buildTagPages" -> <<TagsIndexPath>>
      [] OTHER -> <<>>

\* a task whose writes in flight are all done goes on with its next write,
\* or resolves
Advance(tk) ==
    IF tk.pending # {} \/ tk.status # "running" THEN tk
    ELSE IF tk.todo # <<>>
         THEN Task("running", {Head(tk.todo)}, Tail(tk.todo))
         ELSE Task("ok", {}, <<>>)

\* a task as it stands when Promise.all has called it
Started(t, ps, cfg, in) == Advance(Task("running", FirstWrites(t, ps, cfg, in), LaterWrites(t)))

\* a failed write: buildAboutPage logs and resolves, every other task logs
\* and rethrows; what a task has in flight stays in flight
Failed(t, tk, p) ==
    IF tk.status # "running" THEN [tk EXCEPT !.pending = @ \ {p}]
    ELSE IF t = "buildAboutPage" THEN Task("ok", tk.pending \ {p}, <<>>)
    ELSE Task("failed", tk.pending \ {p}, <<>>)

AllOk(ts) == \A t \in Tasks : ts[t].status = "ok"

(***************************************************************************)
(* siteBuilder.buildSite                                                   *)
(***************************************************************************)
Inputs ==
    [cfgFile : ConfigFiles, posts : PostLists, listable : BOOLEAN, about : BOOLEAN]

BuildIdle ==
    /\ bpc = "idle"
    /\ input = [cfgFile |-> ConfigFile("ok", FALSE, 0),
                posts |-> <<>>, listable |-> TRUE, about |-> FALSE]
    /\ config = DEFAULT_CONFIG
    /\ posts = <<>>
    /\ tasks = [t \in Tasks |-> IdleTask]
    /\ writes = {}
    /\ errPage = "none"
    /\ logged = {}
    /\ failures = 0

BuildInit ==
    /\ input \in Inputs
    /\ bpc = "start"
    /\ config = DEFAULT_CONFIG
    /\ posts = <<>>
    /\ tasks = [t \in Tasks |-> IdleTask]
    /\ writes = {}
    /\ errPage = "none"
    /\ logged = {}
    /\ failures = 0

\* buildSite's catch block: log (after the logs of the thrower), then await
\* buildErrorPage()
Catch(thrower) ==
    /\ bpc' = "catch"
    /\ errPage' = "pending"
    /\ logged' = logged \cup thrower \cup {"buildSite"}

\* await loadConfig(...): a validation error is thrown into the catch block
LoadConfig ==
    /\ bpc = "start"
    /\ LET r == loadConfig(input.cfgFile)
       IN IF r.result = "ok"
          THEN /\ config' = r.config
               /\ bpc' = "loaded"
               /\ UNCHANGED <<errPage, logged>>
          ELSE /\ Catch({"loadConfig"})
               /\ UNCHANGED config
    /\ UNCHANGED <<input, posts, tasks, writes, failures, tvars, fvars>>

\* await writeCssVariables(); await loadAllPosts(...): neither throws
LoadPosts ==
    /\ bpc = "loaded"
    /\ posts' = loadAllPosts(input)
    /\ bpc' = "posts"
    /\ UNCHANGED <<input, config, tasks, writes, errPage, logged, failures, tvars, fvars>>

\* Promise.all([...]): every task is called and runs to its first await
\* (buildHomePage never gets there when paginateItems loops for ever)
Dispatch ==
    /\ bpc = "posts"
    /\ IF paginateHangs(Len(posts), config.postsPerPage)
       THEN /\ bpc' = "hung"
            /\ UNCHANGED tasks
       ELSE /\ tasks' = [t \in Tasks |-> Started(t, posts, config, input)]
            /\ bpc' = "awaiting"
    /\ UNCHANGED <<input, config, posts, writes, errPage, logged, failures, tvars, fvars>>

\* a write of a task completes
WriteOk(t, p) ==
    /\ p \in tasks[t].pending
    /\ writes' = writes \cup {[path |-> p, by |-> t]}
    /\ tasks' = [tasks EXCEPT ![t] = Advance([@ EXCEPT !.pending = @ \ {p}])]
    /\ UNCHANGED <<input, bpc, config, posts, errPage, logged, failures, tvars, fvars>>

\* a write of a task fails; the first task to reject rejects Promise.all,
\* which takes buildSite to its catch block
WriteFail(t, p) ==
    /\ p \in tasks[t].pending
    /\ failures < MaxFailures
    /\ failures' = failures + 1
    /\ tasks' = [tasks EXCEPT ![t] = Failed(t, @, p)]
    /\ IF tasks[t].status = "running" /\ t # "buildAboutPage" /\ bpc = "awaiting"
       THEN Catch({t})
       ELSE /\ logged' = logged \cup {t}
            /\ UNCHANGED <<bpc, errPage>>
    /\ UNCHANGED <<input, config, posts, writes, tvars, fvars>>

\* Promise.all resolves: every task resolved
BuildReturns ==
    /\ bpc = "awaiting"
    /\ AllOk(tasks)
    /\ bpc' = "returned"
    /\ UNCHANGED <<input, config, posts, tasks, writes, errPage, logged, failures, tvars, fvars>>

\* buildErrorPage in the catch block: 404.html is written, or the write
\* fails; buildSite throws either way
ErrorPageDone(ok) ==
    /\ bpc = "catch"
    /\ errPage = "pending"
    /\ IF ok
       THEN /\ writes' = writes \cup {[path |-> ErrorPath, by |-> "buildErrorPage"]}
            /\ errPage' = "written"
            /\ UNCHANGED <<logged, failures>>
       ELSE /\ failures < MaxFailures
            /\ failures' = failures + 1
            /\ errPage' = "failed"
            /\ logged' = logged \cup {"buildErrorPage"}
            /\ UNCHANGED writes
    /\ bpc' = "raised"
    /\ UNCHANGED <<input, config, posts, tasks, tvars, fvars>>

BuildNext ==
    \/ LoadConfig
    \/ LoadPosts
    \/ Dispatch
    \/ \E t \in Tasks : \E p \in tasks[t].pending : WriteOk(t, p)
    \/ \E t \in Tasks : \E p \in tasks[t].pending : WriteFail(t, p)
    \/ BuildReturns
    \/ \E ok \in BOOLEAN : ErrorPageDone(ok)


(***************************************************************************)
(* templateEngine: texts and values                                        *)
(*                                                                         *)
(* A text is a sequence of tokens: a directive {{...}} or a piece of       *)
(* literal text.  What stands between the braces of a directive is a       *)
(* sequence of atoms, in which "." and " " are the separators that         *)
(* String.split sees.  A key of an object is a sequence of atoms without   *)
(* ".".  Objects carry their own keys only (no prototype properties), and  *)
(* the paths of the model read properties of objects only (not the length  *)
(* or the indexes of a string or an array).                                *)
(***************************************************************************)
Tok(t, a) == [t |-> t, a |-> a]

Each(path) == Tok("each", path)       \* {{#each path}}
EndEach == Tok("endeach", <<>>)       \* {{/each}}
If(cond) == Tok("if", cond)           \* {{#if cond}}
Else == Tok("else", <<>>)             \* {{else}}
EndIf == Tok("endif", <<>>)           \* {{/if}}
Var(key) == Tok("var", key)           \* {{key}}
Lit(a) == Tok("lit", a)               \* literal text

\* a value of a context: undefined, a boolean, a number, a string (a text),
\* an array, or an object (fields in insertion order); id tells one object
\* or array from another with the same content
Value(k, b, n, s, xs, o, id) ==
    [k |-> k, b |-> b, n |-> n, s |-> s, xs |-> xs, o |-> o, id |-> id]

Undefined == Value("undef", FALSE, 0, <<>>, <<>>, <<>>, 0)
Bool(b) == Value("bool", b, 0, <<>>, <<>>, <<>>, 0)
Num(n) == Value("num", FALSE, n, <<>>, <<>>, <<>>, 0)
Str(s) == Value("str", FALSE, 0, s, <<>>, <<>>, 0)
Arr(xs, id) == Value("arr", FALSE, 0, <<>>, xs, <<>>, id)
Obj(o, id) == Value("obj", FALSE, 0, <<>>, <<>>, o, id)
Null == Value("null", FALSE, 0, <<>>, <<>>, <<>>, 0)

Field(key, val) == [key |-> key, val |-> val]

\* obj[key]: the last field set under the key, or undefined
Get(v, key) ==
    IF v.k = "obj" /\ \E i \in 1..Len(v.o) : v.o[i].key = key
    THEN v.o[CHOOSE i \in 1..Len(v.o) :
                 /\ v.o[i].key = key
                 /\ \A j \in (i + 1)..Len(v.o) : v.o[j].key # key].val
    ELSE Undefined

\* JavaScript truthiness
Truthy(v) ==
    CASE v.k \in {"undef", "null"} -> FALSE
      [] v.k = "bool" -> v.b
      [] v.k = "num" -> v.n # 0
      [] v.k = "str" -> v.s # <<>>
      [] OTHER -> TRUE

RECURSIVE Concat(_)
Concat(ss) == IF ss = <<>> THEN <<>> ELSE Head(ss) \o Concat(Tail(ss))

\* String.split(sep) on a sequence of atoms
RECURSIVE SplitFrom(_, _, _)
SplitFrom(a, sep, cur) ==
    IF a = <<>> THEN <<cur>>
    ELSE IF Head(a) = sep THEN <<cur>> \o SplitFrom(Tail(a), sep, <<>>)
    ELSE SplitFrom(Tail(a), sep, Append(cur, Head(a)))

Split(a, sep) == SplitFrom(a, sep, <<>>)

\* String(n) for the one-digit numbers of the model
NumText(n) == <<(<<"0", "1", "2", "3", "4", "5", "6", "7", "8", "9">>)[n + 1]>>

\* Number(s) of a string: the set of its number, empty for NaN
ToNumber(s) ==
    IF s = <<>> THEN {0}
    ELSE {n \in 0..9 : s = <<Lit(NumText(n))>>}

\* String(value), as String.replace makes it of a callback's result
RECURSIVE ToText(_)
ToText(v) ==
    CASE v.k = "undef" -> <<Lit(<<"undefined">>)>>
      [] v.k = "null" -> <<Lit(<<"null">>)>>
      [] v.k = "bool" -> <<Lit(<<IF v.b THEN "true" ELSE "false">>)>>
      [] v.k = "num" -> <<Lit(NumText(v.n))>>
      [] v.k = "str" -> v.s
      [] v.k = "arr" ->
            Concat([i \in 1..Len(v.xs) |->
                      IF i = 1 THEN ToText(v.xs[i])
                      ELSE <<Lit(<<",">>)>> \o ToText(v.xs[i])])
      [] OTHER -> <<Lit(<<"[object Object]">>)>>

\* left === right
StrictEquals(l, r) ==
    /\ l.k = r.k
    /\ CASE l.k \in {"undef", "null"} -> TRUE
         [] l.k = "bool" -> l.b = r.b
         [] l.k = "num" -> l.n = r.n
         [] l.k = "str" -> l.s = r.s
         [] OTHER -> l.id = r.id

\* left == right (abstract equality: a boolean is compared as a number, a
\* string against a number as its number, an object as its string)
RECURSIVE LooseEquals(_, _)
LooseEquals(l, r) ==
    CASE l.k = r.k -> StrictEquals(l, r)
      [] l.k \in {"undef", "null"} \/ r.k \in {"undef", "null"} ->
            l.k \in {"undef", "null"} /\ r.k \in {"undef", "null"}
      [] l.k = "bool" -> LooseEquals(Num(IF l.b THEN 1 ELSE 0), r)
      [] r.k = "bool" -> LooseEquals(l, Num(IF r.b THEN 1 ELSE 0))
      [] l.k = "num" /\ r.k = "str" -> l.n \in ToNumber(r.s)
      [] l.k = "str" /\ r.k = "num" -> r.n \in ToNumber(l.s)
      [] l.k \in {"arr", "obj"} -> LooseEquals(Str(ToText(l)), r)
      [] OTHER -> LooseEquals(l, Str(ToText(r)))

(***************************************************************************)
(* templateEngine: the directive engine                                    *)
(***************************************************************************)
\* getNestedValue: path.split('.').reduce(prev ? prev[curr] : undefined)
RECURSIVE reducePath(_, _)
reducePath(prev, segs) ==
    IF segs = <<>> THEN prev
    ELSE reducePath(IF Truthy(prev) THEN Get(prev, Head(segs)) ELSE Undefined,
                    Tail(segs))

getNestedValue(obj, path) == reducePath(obj, Split(path, "."))

\* index of the first token at or after position i that is of one of the
\* kinds, or 0
RECURSIVE FindFrom(_, _, _)
FindFrom(tpl, i, kinds) ==
    IF i > Len(tpl) THEN 0
    ELSE IF tpl[i].t \in kinds THEN i
    ELSE FindFrom(tpl, i + 1, kinds)

\* Array.indexOf(item), zero-based
indexOf(items, item) ==
    (CHOOSE i \in 1..Len(items) :
        /\ StrictEquals(items[i], item)
        /\ \A j \in 1..(i - 1) : ~StrictEquals(items[j], item)) - 1

\* childContext mutated: the body is evaluated against the enclosing context
childContextIsParent(item, parent, index) == parent

\* {...item, _parent: data, _index: index}: the own fields of an object
\* item, then the two reserved keys
childContext(item, parent, index) ==
    Obj((IF item.k = "obj" THEN item.o ELSE <<>>)
          \o <<Field(<<"_parent">>, parent), Field(<<"_index">>, Num(index))>>, 0)

\* evalCondition mutated: a path condition holds when its value is defined
evalConditionDefined(cond, ctx) ==
    /\ \A i \in 1..Len(cond) : cond[i] # " "
    /\ getNestedValue(ctx, cond).k # "undef"

\* the condition of an {{#if}}: a path when it holds no space, else
\* `left operator right` on the first three words
evalCondition(cond, ctx) ==
    IF \A i \in 1..Len(cond) : cond[i] # " "
    THEN Truthy(getNestedValue(ctx, cond))
    ELSE LET words == Split(cond, " ")
             left == words[1]
             operator == words[2]
             resolvedLeft == getNestedValue(ctx, left)
             leftValue == IF Truthy(resolvedLeft) THEN resolvedLeft
                          ELSE Str(<<Lit(left)>>)
         IN IF Len(words) < 3
            THEN FALSE    \* getNestedValue(data, undefined) throws: caught
            ELSE LET right == words[3]
                     resolvedRight == getNestedValue(ctx, right)
                     rightValue == IF Truthy(resolvedRight) THEN resolvedRight
                                   ELSE Str(<<Lit(right)>>)
                 IN CASE operator = <<"==">> -> LooseEquals(leftValue, rightValue)
                      [] operator = <<"===">> -> StrictEquals(leftValue, rightValue)
                      [] operator = <<"!=">> -> ~LooseEquals(leftValue, rightValue)
                      [] operator = <<"!==">> -> ~StrictEquals(leftValue, rightValue)
                      [] OTHER -> Truthy(getNestedValue(ctx, cond))

RECURSIVE processTemplate(_, _)
RECURSIVE processEachBlocks(_, _)
RECURSIVE processIfBlocks(_, _)

\* template.replace(eachRegex, ...): the leftmost {{#each}} with the first
\* {{/each}} after it, then on from there
processEachBlocks(tpl, ctx) ==
    LET i == FindFrom(tpl, 1, {"each"})
        j == IF i = 0 THEN 0 ELSE FindFrom(tpl, i + 1, {"endeach"})
    IN IF j = 0 THEN tpl
       ELSE LET items == getNestedValue(ctx, tpl[i].a)
                blockContent == SubSeq(tpl, i + 1, j - 1)
                rendered ==
                    IF items.k # "arr" \/ items.xs = <<>> THEN <<>>
                    ELSE Concat([n \in 1..Len(items.xs) |->
                             processTemplate(blockContent,
                                 childContext(items.xs[n], ctx,
                                              indexOf(items.xs, items.xs[n])))])
            IN SubSeq(tpl, 1, i - 1) \o rendered
                 \o processEachBlocks(SubSeq(tpl, j + 1, Len(tpl)), ctx)

\* template.replace(ifRegex, ...): the leftmost {{#if}}, its content up to
\* the first {{else}} or {{/if}}, an else content up to the first {{/if}}
processIfBlocks(tpl, ctx) ==
    LET i == FindFrom(tpl, 1, {"if"})
        e == IF i = 0 THEN 0 ELSE FindFrom(tpl, i + 1, {"else", "endif"})
        j == IF i = 0 THEN 0 ELSE FindFrom(tpl, i + 1, {"endif"})
    IN IF j = 0 THEN tpl
       ELSE LET close == IF tpl[e].t = "else" THEN FindFrom(tpl, e + 1, {"endif"}) ELSE e
                ifContent == SubSeq(tpl, i + 1, e - 1)
                elseContent == IF tpl[e].t = "else" THEN SubSeq(tpl, e + 1, close - 1)
                               ELSE <<>>
                rendered == IF evalCondition(tpl[i].a, ctx)
                            THEN processTemplate(ifContent, ctx)
                            ELSE processTemplate(elseContent, ctx)
            IN SubSeq(tpl, 1, i - 1) \o rendered
                 \o processIfBlocks(SubSeq(tpl, close + 1, Len(tpl)), ctx)

\* the variable pass: every {{key}} whose key starts with neither # nor /
\* ({{else}} is one) becomes its value's string, '' when undefined
replaceVariables(tpl, ctx) ==
    Concat([n \in 1..Len(tpl) |->
        IF tpl[n].t \in {"var", "else"}
        THEN LET key == IF tpl[n].t = "else" THEN <<"else">> ELSE tpl[n].a
                 value == getNestedValue(ctx, key)
             IN IF value.k = "undef" THEN <<>> ELSE ToText(value)
        ELSE <<tpl[n]>>])

\* processTemplate: each blocks, then if blocks, then variables
processTemplate(tpl, ctx) ==
    IF tpl = <<>> THEN <<>>
    ELSE replaceVariables(processIfBlocks(processEachBlocks(tpl, ctx), ctx), ctx)


(***************************************************************************)
(* siteBuilder: the content pipeline (processPostFile, loadAllPosts).      *)
(* A file name, a title, a url are sequences of characters, ".md" and      *)
(* "/posts/" being one character of the model each.  A date is a day       *)
(* number.  The frontmatter of a file is a record of the keys it sets.     *)
(***************************************************************************)
\* String.replace(pattern, by) with a string pattern: the first occurrence
replaceFirst(str, pattern, by) ==
    IF \E i \in 1..Len(str) : str[i] = pattern
    THEN LET i == CHOOSE k \in 1..Len(str) :
                     str[k] = pattern /\ \A j \in 1..(k - 1) : str[j] # pattern
         IN SubSeq(str, 1, i - 1) \o by \o SubSeq(str, i + 1, Len(str))
    ELSE str

\* String.replace(/c/g, by)
replaceAll(str, c, by) == [i \in 1..Len(str) |-> IF str[i] = c THEN by ELSE str[i]]

\* {...base, ...over}
spread(base, over) ==
    [key \in DOMAIN base \cup DOMAIN over |->
        IF key \in DOMAIN over THEN over[key] ELSE base[key]]

\* renderMarkdown's answer when marked.parse throws
ErrorHtml == <<"<p>Error rendering content.</p>">>

\* renderMarkdown(markdown): '' for an empty text, marked's HTML, or the
\* error paragraph when marked.parse throws
renderMarkdown(f) ==
    IF f.body = <<>> THEN <<>>
    ELSE IF f.renders THEN <<"<html>">> \o f.body
    ELSE ErrorHtml

wordsPerMinute == 200
minMinutes == 1

\* calculateReadingTime: ceil(words / wordsPerMinute), at least minMinutes
calculateReadingTime(f) ==
    IF f.body = <<>> THEN minMinutes
    ELSE Max(minMinutes, CeilDiv(Len(f.body), wordsPerMinute))

NoPost == [ref |-> 0]

\* processPostFile(filePath, filename); ref is the identity of the object
\* it returns
processPostFile(f, ref) ==
    IF ~f.readable
    THEN \* readFile rejects: caught, logged, null
         [ok |-> FALSE, post |-> NoPost, log |-> {[level |-> "error", file |-> f.name]}]
    ELSE LET noDate == ~("date" \in DOMAIN f.data /\ Truthy(f.data.date))
             noTitle == ~("title" \in DOMAIN f.data /\ Truthy(f.data.title))
             withDate == IF noDate THEN spread(f.data, [date |-> Num(f.mtime)])
                         ELSE f.data
             postData ==
                 IF noTitle
                 THEN spread(withDate,
                        [title |-> Str(replaceAll(replaceFirst(f.name, ".md", <<>>), "-", " "))])
                 ELSE withDate
             html == renderMarkdown(f)
             readingTime == calculateReadingTime(f)
             fileName == replaceAll(replaceFirst(f.name, ".md", <<>>), " ", "_")
             url == <<"/posts/">> \o fileName \o <<"/">>
         IN IF noDate /\ ~f.statable
            THEN \* fs.statSync throws: caught, logged, null
                 [ok |-> FALSE, post |-> NoPost,
                  log |-> {[level |-> "error", file |-> f.name]}]
            ELSE [ok |-> TRUE,
                  post |-> spread([ref |-> ref,
                                   file |-> fileName,
                                   title |-> postData.title,
                                   date |-> postData.date,
                                   tags |-> IF "tags" \in DOMAIN postData
                                            THEN postData.tags ELSE <<>>,
                                   html |-> html,
                                   readingTime |-> readingTime,
                                   url |-> url],
                                  postData),
                  log |-> {[level |-> "warn", file |-> f.name, field |-> "date"] :
                               x \in {y \in {1} : noDate}}
                          \cup {[level |-> "warn", file |-> f.name, field |-> "title"] :
                                  x \in {y \in {1} : noTitle}}
                          \cup {[level |-> "error", file |-> f.name, field |-> "markdown"] :
                                  x \in {y \in {1} : f.body # <<>> /\ ~f.renders}}]

\* new Date(post.date)
DateOf(post) == post.date.n

\* sort mutated: oldest first
sortByDateAscending(ps) ==
    [i \in 1..Len(ps) |->
        ps[CHOOSE k \in 1..Len(ps) :
              Cardinality({j \in 1..Len(ps) :
                  DateOf(ps[j]) < DateOf(ps[k])
                    \/ (DateOf(ps[j]) = DateOf(ps[k]) /\ j < k)}) = i - 1]]

\* validPosts.sort((a, b) => new Date(b.date) - new Date(a.date)): a stable
\* sort, newest first
RECURSIVE sortByDate(_)
sortByDate(ps) ==
    IF ps = <<>> THEN <<>>
    ELSE LET rest == sortByDate(SubSeq(ps, 1, Len(ps) - 1))
             x == ps[Len(ps)]
             k == Cardinality({i \in 1..Len(rest) : DateOf(rest[i]) - DateOf(x) >= 0})
         IN SubSeq(rest, 1, k) \o <<x>> \o SubSeq(rest, k + 1, Len(rest))

\* posts.filter(post => post !== null)
RECURSIVE validPosts(_)
validPosts(results) ==
    IF results = <<>> THEN <<>>
    ELSE (IF Head(results).ok THEN <<Head(results).post>> ELSE <<>>)
           \o validPosts(Tail(results))

\* the own and inherited properties a fresh {} answers a lookup with
ObjectPrototype == {<<"constructor">>}

\* extractTags: tags[tag] of an inherited property is not an array, and
\* tags[tag].push throws
extractTagsThrows(ps) ==
    \E i \in 1..Len(ps) : \E j \in 1..Len(ps[i].tags) : ps[i].tags[j] \in ObjectPrototype

(***************************************************************************)
(* templateEngine: loadTemplate and its cache.  files[name] tells, for the *)
(* user template and the engine default of the name, whether the file can  *)
(* be read and what it holds; cache[name] is templateCache[templatePath].  *)
(***************************************************************************)
TemplateFile(exists, text) == [exists |-> exists, text |-> text]

NotCached == [cached |-> FALSE, text |-> <<>>]

\* updateConfig(newConfig) of the template engine: the module's own
\* cacheTemplates, and the cache emptied when it is off
updateConfig(cacheTemplates, cache) ==
    [cacheTemplates |-> cacheTemplates,
     cache |-> IF ~cacheTemplates THEN [name \in DOMAIN cache |-> NotCached] ELSE cache]

\* loadTemplate mutated: the engine default is tried first
loadTemplateDefaultFirst(name, files, cacheTemplates, cache) ==
    IF files[name].engine.exists
    THEN [result |-> files[name].engine.text, cache |-> cache, log |-> {}, threw |-> FALSE,
             read |-> TRUE]
    ELSE IF files[name].user.exists
    THEN [result |-> files[name].user.text, cache |-> cache, log |-> {}, threw |-> FALSE,
             read |-> TRUE]
    ELSE [result |-> <<>>, cache |-> cache, log |-> {name}, threw |-> FALSE,
             read |-> TRUE]

\* loadTemplate(templateName); cacheTemplates is getConfig().cacheTemplates,
\* the key of the site configuration that the function's local `config`
\* reads (not the module's own config that updateConfig sets)
loadTemplate(name, files, cacheTemplates, cache) ==
    LET store(text) == IF cacheTemplates
                       THEN [cache EXCEPT ![name] = [cached |-> TRUE, text |-> text]]
                       ELSE cache
    IN IF cacheTemplates /\ cache[name].cached /\ cache[name].text # <<>>
       THEN [result |-> cache[name].text, cache |-> cache, log |-> {}, threw |-> FALSE,
             read |-> FALSE]
       ELSE IF files[name].user.exists
       THEN [result |-> files[name].user.text, cache |-> store(files[name].user.text),
             log |-> {}, threw |-> FALSE,
             read |-> TRUE]
       ELSE \* readFileSync throws: the engine default is tried
            IF files[name].engine.exists
            THEN [result |-> files[name].engine.text,
                  cache |-> store(files[name].engine.text), log |-> {}, threw |-> FALSE,
             read |-> TRUE]
            ELSE \* readFileSync throws again: both errors are logged
                 [result |-> <<>>, cache |-> cache, log |-> {name}, threw |-> FALSE,
             read |-> TRUE]

(***************************************************************************)
(* The theme toggle script (theme.js).  A page is [dark, stored]: whether  *)
(* body has the class dark-mode, and localStorage's darkMode ("none" when  *)
(* getItem answers null).                                                  *)
(***************************************************************************)
\* setTheme(isDark)
setTheme(page, isDark) ==
    [page EXCEPT !.dark = isDark, !.stored = IF isDark THEN "true" ELSE "false"]

\* initializeTheme()
initializeTheme(page, prefersDark) ==
    IF page.stored = "true" \/ (prefersDark /\ page.stored = "none")
    THEN setTheme(page, TRUE)
    ELSE setTheme(page, FALSE)

\* the click listener of the toggle button
onToggleClick(page) == setTheme(page, ~page.dark)

\* the change listener of the (prefers-color-scheme: dark) media query
onSystemChange(page, matches) ==
    IF page.stored = "none" THEN setTheme(page, matches) ELSE page

(***************************************************************************)
(* markdownProcessor: the render cache.  renderCache is a Map: its keys    *)
(* (markdown texts, numbered) in insertion order.                          *)
(***************************************************************************)
\* addToCache(key, value) of markdownProcessor
addToRenderCache(renderCache, key, cacheRendering) ==
    IF ~cacheRendering THEN renderCache
    ELSE Append(IF Len(renderCache) >= CACHE_MAX_SIZE THEN Tail(renderCache)
                ELSE renderCache,
                key)

\* renderMarkdown(markdown) on the cache: a hit leaves the Map as it is, a
\* miss renders and adds
renderMarkdownCache(renderCache, markdown, cacheRendering) ==
    IF cacheRendering /\ markdown \in Range(renderCache) THEN renderCache
    ELSE addToRenderCache(renderCache, markdown, cacheRendering)

(***************************************************************************)
(* Tag links.  A tag is a sequence of characters; the href of a link is    *)
(* the text of its /tags/<segment>/ segment, "%20" being one escape.       *)
(***************************************************************************)
\* encodeURIComponent(tag): letters and "_" are kept, a space is escaped
encodeURIComponent(s) == [i \in 1..Len(s) |-> IF s[i] = " " THEN "%20" ELSE s[i]]

\* the directory under tags/ that a request for the href is served from:
\* the path segment, percent-decoded
decodeURIComponent(s) == [i \in 1..Len(s) |-> IF s[i] = "%20" THEN " " ELSE s[i]]

\* the href that generateTagsList gives the tag
tagsListHref(tag) == encodeURIComponent(tag)

\* generateTagsList(tags): the links of one post card or post page
generateTagsList(tags) == {[tag |-> tags[i], href |-> tagsListHref(tags[i])] : i \in 1..Len(tags)}

\* buildTagPages: the directory written for each tag of extractTags(posts)
buildTagPages(ps) ==
    LET tags == extractTags(ps)
    IN {[tag |-> tags[i].tag, dir |-> TagPath(tags[i].tag).name] : i \in 1..Len(tags)}

\* buildTagsIndexPage(tags): the links of the tag-index page
buildTagsIndexPage(ps) ==
    LET tags == extractTags(ps)
    IN {[tag |-> tags[i].tag, href |-> ReplaceSpaces(tags[i].tag)] : i \in 1..Len(tags)}

\* buildSitemap: the <loc> entries of the tag pages
buildSitemap(ps) ==
    LET tags == extractTags(ps)
    IN {[tag |-> tags[i].tag, href |-> ReplaceSpaces(tags[i].tag)] : i \in 1..Len(tags)}

(***************************************************************************)
(* configManager: the paths of the configuration.  A path is relative      *)
(* ([abs |-> FALSE, rel]) or resolved against a directory, itself a        *)
(* sequence of segments.  DEFAULT_CONFIG.paths is one object of the        *)
(* module: `defaults` is what its fields hold now.                         *)
(***************************************************************************)
Rel(rel) == [abs |-> FALSE, dir |-> <<>>, rel |-> rel]

\* path.resolve(dir, rel)
Abs(dir, rel) == [abs |-> TRUE, dir |-> dir, rel |-> rel]

\* DEFAULT_CONFIG.paths as the module is loaded
DEFAULT_PATHS ==
    [contentDir |-> Rel("./blog/content"), templatesDir |-> Rel("./blog/templates"),
     outputDir |-> Rel("./dist"), cssDir |-> Rel("./blog/css")]

\* process.cwd()
cwd == <<"cwd">>

\* path.isAbsolute of an outputDir option
isAbsolute(p) == p = "/srv/www"

dirname(p) == SubSeq(p, 1, Len(p) - 1)

basename(p) == p[Len(p)]

\* rel.startsWith('./blog/')
startsWithBlog(p) == p.rel \in {"./blog/content", "./blog/templates", "./blog/css"}

\* the resolution of contentDir, templatesDir and cssDir
resolveUnderBlog(p, configDir) ==
    IF p.abs THEN p
    ELSE IF basename(configDir) = "blog" /\ startsWithBlog(p)
         THEN Abs(dirname(configDir), p.rel)
         ELSE Abs(configDir, p.rel)

\* resolvePaths(config, basePath): the fields of result.paths afterwards
resolvePaths(paths, configDir) ==
    [contentDir |-> resolveUnderBlog(paths.contentDir, configDir),
     templatesDir |-> resolveUnderBlog(paths.templatesDir, configDir),
     outputDir |-> IF paths.outputDir.abs THEN paths.outputDir
                   ELSE Abs(configDir, paths.outputDir.rel),
     cssDir |-> resolveUnderBlog(paths.cssDir, configDir)]

\* addDerivedProperties(config): a new paths object with postsDir, aboutDir
addDerivedProperties(paths) ==
    [contentDir |-> paths.contentDir, templatesDir |-> paths.templatesDir,
     outputDir |-> paths.outputDir, cssDir |-> paths.cssDir,
     postsDir |-> <<paths.contentDir, "posts">>, aboutDir |-> <<paths.contentDir, "about">>]

\* deepMerge(config, migratedConfig) on the paths: a user config with a
\* paths section gets a new object, its keys over the target's
deepMergePaths(target, userPaths) == [target EXCEPT !.outputDir = userPaths.outputDir]

\* loadConfig({ configPath, useCache: false, outputDir }) with the module's
\* DEFAULT_CONFIG.paths holding `defaults`: without a paths section in the
\* user config, config.paths is the DEFAULT_CONFIG.paths object itself and
\* what resolvePaths and the outputDir override assign lands there
loadConfigPaths(defaults, file, configDir, outputDir) ==
    LET shared == file \in {"missing", "noPaths"}
        merged == IF shared THEN defaults
                  ELSE deepMergePaths(defaults, [outputDir |-> Rel("./public")])
        resolved == resolvePaths(merged, configDir)
        overridden == IF outputDir # "none"
                      THEN [resolved EXCEPT !.outputDir =
                               IF isAbsolute(outputDir) THEN Abs(<<>>, outputDir)
                               ELSE Abs(cwd, outputDir)]
                      ELSE resolved
    IN [defaults |-> IF shared THEN overridden ELSE defaults,
        config |-> addDerivedProperties(overridden)]

(***************************************************************************)
(* fileHandler: the file cache.  fileCache is a Map, modelled as the       *)
(* sequence of its entries [path, content, timestamp] in insertion order;  *)
(* the state of the module and of the storage is                           *)
(* [disk, cache, enableCache, now].                                        *)
(***************************************************************************)
cacheKeys(cache) == {cache[i].path : i \in 1..Len(cache)}

\* fileCache.delete(key)
cacheDelete(cache, key) == SelectSeq(cache, LAMBDA e : e.path # key)

\* fileCache.set(key, value): an existing key keeps its place
cacheSet(cache, key, value) ==
    IF key \in cacheKeys(cache)
    THEN [i \in 1..Len(cache) |->
             IF cache[i].path = key
             THEN [path |-> key, content |-> value.content, timestamp |-> value.timestamp]
             ELSE cache[i]]
    ELSE Append(cache, [path |-> key, content |-> value.content, timestamp |-> value.timestamp])

\* addToCache with the newest entry evicted from a full cache
addToCacheEvictsNewest(st, filePath, content) ==
    IF ~st.enableCache THEN [cache |-> st.cache, full |-> FALSE]
    ELSE LET full == Len(st.cache) >= MAX_CACHE_SIZE
             kept == IF full THEN cacheDelete(st.cache, st.cache[Len(st.cache)].path) ELSE st.cache
         IN [cache |-> cacheSet(kept, filePath, [content |-> content, timestamp |-> st.now]),
             full |-> full]

\* addToCache(filePath, content); full: the insertion found the cache full
addToCache(st, filePath, content) ==
    IF ~st.enableCache THEN [cache |-> st.cache, full |-> FALSE]
    ELSE LET full == Len(st.cache) >= MAX_CACHE_SIZE
             kept == IF full THEN cacheDelete(st.cache, Head(st.cache).path) ELSE st.cache
         IN [cache |-> cacheSet(kept, filePath, [content |-> content, timestamp |-> st.now]),
             full |-> full]

\* getFromCache(filePath): the content or null, and the cache it leaves
getFromCache(st, filePath) ==
    IF ~st.enableCache THEN [content |-> "null", cache |-> st.cache]
    ELSE IF filePath \notin cacheKeys(st.cache) THEN [content |-> "null", cache |-> st.cache]
    ELSE LET cached == CHOOSE e \in Range(st.cache) : e.path = filePath
         IN IF st.now - cached.timestamp > cacheTTL
            THEN [content |-> "null", cache |-> cacheDelete(st.cache, filePath)]
            ELSE [content |-> cached.content, cache |-> st.cache]

\* readFile(filePath): `if (cachedContent)` takes null and "" for a miss
readFile(st, filePath) ==
    LET got == getFromCache(st, filePath)
    IN IF got.content \notin {"null", ""}
       THEN [st |-> [st EXCEPT !.cache = got.cache], result |-> got.content, full |-> FALSE]
       ELSE LET content == st.disk[filePath]
                added == addToCache([st EXCEPT !.cache = got.cache], filePath, content)
            IN [st |-> [st EXCEPT !.cache = added.cache], result |-> content, full |-> added.full]

\* writeFile(filePath, content)
writeFile(st, filePath, content) ==
    LET written == [st EXCEPT !.disk[filePath] = content]
        added == addToCache(written, filePath, content)
    IN [st |-> [written EXCEPT !.cache = added.cache], full |-> added.full]

\* copyFile(sourcePath, destPath)
copyFile(st, sourcePath, destPath) == [st EXCEPT !.disk[destPath] = st.disk[sourcePath]]

\* updateConfig({ enableCache })
updateFileConfig(st, enableCache) ==
    [st EXCEPT !.enableCache = enableCache,
               !.cache = IF ~enableCache THEN <<>> ELSE @]

\* clearCache()
clearFileCache(st) == [st EXCEPT !.cache = <<>>]

(***************************************************************************)
(* postCreator: createPost.  A title is [slug, text]: the slug that        *)
(* generateSlug makes of it and what else tells it from the other titles   *)
(* of that slug.  A file of the posts directory is [slug, suffix, content] *)
(* with suffix 0 for <slug>.md and the day for <slug>_DDMMYY.md.           *)
(***************************************************************************)
generateSlug(title) == title.slug

\* getDateSuffix()
getDateSuffix(day) == day

\* postExists(postsDir, slug)
postExists(files, slug) == \E f \in files : f.slug = slug /\ f.suffix = 0

\* createFrontmatter(title, date)
createFrontmatter(title, date) == [title |-> title, date |-> date]

\* fs.writeFileSync(postPath, content)
writeFileSync(files, slug, suffix, content) ==
    {f \in files : ~(f.slug = slug /\ f.suffix = suffix)}
      \cup {[slug |-> slug, suffix |-> suffix, content |-> content]}

\* createPost(title, blogDir) on the day, the write succeeding or throwing
createPost(files, title, day, writable) ==
    LET slug == generateSlug(title)
        suffix == IF postExists(files, slug) THEN getDateSuffix(day) ELSE 0
    IN IF writable
       THEN [success |-> TRUE, slug |-> slug, suffix |-> suffix,
             files |-> writeFileSync(files, slug, suffix, createFrontmatter(title, day))]
       ELSE [success |-> FALSE, slug |-> slug, suffix |-> suffix, files |-> files]

(***************************************************************************)
(* Specifications                                                          *)
(***************************************************************************)
\* ---- the inputs of the template runs ----
MaxItems == 2          \* longest array of a context

P == <<"p">>
Q == <<"q">>
V == <<"v">>
W == <<"w">>
XS == <<"xs">>
O == <<"o">>
SpacedKey == <<"p", " ", "~", " ", "q">>

\* the texts of the string values: plain, and one that reads as a directive
PlainText == <<Lit(<<"a">>)>>
DirectiveText == <<Var(W)>>

\* the elements an array is made of, by content
ElementFields == {<<Field(V, Str(PlainText))>>, <<Field(V, Str(DirectiveText))>>}

\* arrays of up to MaxItems objects, each object its own
Arrays ==
    UNION {{Arr([i \in 1..n |-> Obj(fs[i], 10 + i)], 3) :
              fs \in [1..n -> ElementFields]} : n \in 0..MaxItems}

\* arrays that hold one and the same object at every position
RepeatedArrays ==
    {Arr([i \in 1..n |-> Obj(<<Field(V, Str(PlainText))>>, 11)], 4) : n \in 2..MaxItems}

Opt(key, val) == IF val.k = "undef" THEN <<>> ELSE <<Field(key, val)>>

Contexts ==
    {Obj(Opt(P, p) \o Opt(Q, q) \o Opt(V, v) \o <<Field(W, Str(<<Lit(<<"Z">>)>>))>>
           \o Opt(XS, xs) \o Opt(SpacedKey, sp)
           \o <<Field(O, Obj(<<Field(P, Bool(TRUE))>>, 2))>>, 1) :
        p \in {Undefined, Bool(TRUE), Bool(FALSE), Num(0), Str(<<>>), Str(PlainText)},
        q \in {Undefined, Num(0), Str(PlainText)},
        v \in {Undefined, Str(PlainText), Str(DirectiveText)},
        xs \in Arrays \cup RepeatedArrays \cup {Undefined, Str(PlainText)},
        sp \in {Undefined, Bool(TRUE)}}

Operators == {<<"==">>, <<"===">>, <<"!=">>, <<"!==">>}

\* conditions that are a path
PathConditions == {P, <<"o", ".", "p">>, <<"nope">>, <<"p", ".", "q">>}

\* conditions `left operator right`
Comparisons ==
    {P \o <<" ">> \o op \o <<" ">> \o r : op \in Operators, r \in {Q, <<"0">>}}

\* conditions with a space that are no comparison: an unknown operator, a
\* missing operand, extra tokens
Malformed ==
    {SpacedKey, <<"p", " ", "==">>, <<"p", " ", "q">>,
     <<"p", " ", "==", " ", "q", " ", "r">>}

Bodies ==
    {<<Lit(<<"Y">>)>>, <<Var(V)>>, <<Lit(<<"Y">>), Var(V)>>,
     <<If(V), Lit(<<"Y">>), Else, Lit(<<"N">>), EndIf>>,
     <<Var(<<"_index">>), Var(<<"_parent", ".", "w">>)>>}

\* a template: one iteration block, one conditional block, or plain text
Template(kind, arg, a, b, else) ==
    [kind |-> kind, arg |-> arg, a |-> a, b |-> b, else |-> else]

Templates ==
    {Template("each", path, a, <<>>, FALSE) : path \in {XS, P}, a \in Bodies}
    \cup {Template("if", c, a, b, TRUE) :
            c \in PathConditions \cup Comparisons \cup Malformed,
            a \in {<<Lit(<<"Y">>)>>, <<Var(V)>>}, b \in {<<Lit(<<"N">>)>>, <<Var(V)>>}}
    \cup {Template("if", c, a, <<>>, FALSE) :
            c \in PathConditions \cup Comparisons \cup Malformed,
            a \in {<<Lit(<<"Y">>)>>, <<Var(V)>>}}
    \cup {Template("plain", <<>>, a, <<>>, FALSE) : a \in Bodies}

\* templates with a block inside the body of a block of the same type:
\* an inner iteration over the enclosing context's array, an inner
\* conditional on q
InnerPath == <<"_parent", ".", "xs">>

NestedTemplates ==
    {Template("nested-each", XS, a, <<>>, FALSE) : a \in {<<Lit(<<"Y">>)>>, <<Var(V)>>}}
    \cup {Template("nested-if", c, a, <<>>, FALSE) :
            c \in {P, <<"o", ".", "p">>}, a \in {<<Lit(<<"Y">>)>>, <<Var(V)>>}}

\* the text of a template
TemplateText(tm) ==
    CASE tm.kind = "each" -> <<Each(tm.arg)>> \o tm.a \o <<EndEach>>
      [] tm.kind = "nested-each" ->
            <<Each(tm.arg), Lit(<<"A">>), Each(InnerPath)>> \o tm.a
              \o <<EndEach, Lit(<<"B">>), EndEach>>
      [] tm.kind = "nested-if" ->
            <<If(tm.arg), Lit(<<"A">>), If(Q)>> \o tm.a
              \o <<EndIf, Lit(<<"B">>), EndIf>>
      [] tm.kind = "if" ->
            <<If(tm.arg)>> \o tm.a \o (IF tm.else THEN <<Else>> \o tm.b ELSE <<>>)
              \o <<EndIf>>
      [] OTHER -> tm.a

TemplateIdle ==
    /\ tpc = "idle"
    /\ template = Template("plain", <<>>, <<>>, <<>>, FALSE)
    /\ data = Obj(<<>>, 1)
    /\ output = <<>>

TemplateInit ==
    /\ tpc = "ready"
    /\ template \in Templates
    /\ data \in Contexts
    /\ output = <<>>

\* processTemplate(template, data)
Render ==
    /\ tpc = "ready"
    /\ output' = processTemplate(TemplateText(template), data)
    /\ tpc' = "done"
    /\ UNCHANGED <<template, data, bvars, fvars>>

\* processEachBlocks(template, data) on its own
RenderEachBlocks ==
    /\ tpc = "ready"
    /\ output' = processEachBlocks(TemplateText(template), data)
    /\ tpc' = "each-done"
    /\ UNCHANGED <<template, data, bvars, fvars>>

\* processIfBlocks(template, data) on its own
RenderIfBlocks ==
    /\ tpc = "ready"
    /\ output' = processIfBlocks(TemplateText(template), data)
    /\ tpc' = "if-done"
    /\ UNCHANGED <<template, data, bvars, fvars>>

TemplateNext ==
    \/ Render
    \/ RenderEachBlocks
    \/ RenderIfBlocks

NestedInit ==
    /\ tpc = "ready"
    /\ template \in NestedTemplates
    /\ data \in Contexts
    /\ output = <<>>

\* ---- single calls of the pure functions ----
CallIdle ==
    /\ fpc = "idle"
    /\ args = <<>>
    /\ ret = <<>>

\* the paginator: item lists of distinct items, a page size, and a page of
\* a listing of totalPages pages
PaginateInit ==
    /\ fpc = "ready"
    /\ args \in {[items |-> [i \in 1..n |-> i], perPage |-> pp,
                  currentPage |-> c, totalPages |-> t] :
                    n \in 0..MaxListLen, pp \in 1..MaxPageSize,
                    t \in 1..MaxTotalPages, c \in 1..MaxTotalPages}
    /\ args.currentPage <= args.totalPages
    /\ ret = <<>>

\* paginateItems(items, {perPage, basePath: '/'})
PaginateItems ==
    /\ fpc = "ready"
    /\ ret' = paginateItems(args.items, args.perPage)
    /\ fpc' = "paginateItems"
    /\ UNCHANGED <<args, bvars, tvars>>

\* calculatePagination({currentPage, totalPages})
CalculatePagination ==
    /\ fpc = "ready"
    /\ ret' = calculatePagination(args.currentPage, args.totalPages)
    /\ fpc' = "calculatePagination"
    /\ UNCHANGED <<args, bvars, tvars>>

\* generatePagination({currentPage, totalPages, basePath: '/'})
GeneratePagination ==
    /\ fpc = "ready"
    /\ ret' = generatePagination(args.currentPage, args.totalPages)
    /\ fpc' = "generatePagination"
    /\ UNCHANGED <<args, bvars, tvars>>

PaginateNext ==
    \/ PaginateItems
    \/ CalculatePagination
    \/ GeneratePagination

\* ---- the content pipeline ----
T == <<"T">>

\* the markdown files of the posts directory, in the order listFiles
\* returns them
PostNames ==
    <<(<<".md">>), (<<"a", "-", "b", ".md">>), (<<"c", " ", "d", ".md">>),
      (<<"x", ".md">>)>>

SourceFile(frontmatter, readable, statable, renders) ==
    [data |-> frontmatter, readable |-> readable, statable |-> statable, renders |-> renders,
     body |-> <<"word">>, mtime |-> 1]

\* what a file holds: its frontmatter, and whether it can be read, stat'ed
\* and rendered
FileContents ==
    {SourceFile([title |-> Str(T), date |-> Num(2), tags |-> <<(<<"a">>), (<<"b">>)>>],
                TRUE, TRUE, TRUE),
     SourceFile([tags |-> <<(<<"b">>)>>], TRUE, TRUE, TRUE),
     SourceFile([title |-> Null, date |-> Str(<<>>)], TRUE, TRUE, TRUE),
     SourceFile([title |-> Str(T), date |-> Num(1), url |-> <<"/", "u", "/">>,
                 file |-> <<"u">>, html |-> <<"h">>, readingTime |-> 9],
                TRUE, TRUE, TRUE),
     SourceFile([title |-> Str(T), date |-> Num(2), tags |-> <<(<<"a">>)>>],
                TRUE, TRUE, FALSE),
     SourceFile([title |-> Str(T), date |-> Num(3), tags |-> <<(<<"constructor">>)>>],
                TRUE, TRUE, TRUE),
     SourceFile([title |-> Str(T), date |-> Num(3)], FALSE, TRUE, TRUE),
     SourceFile([title |-> Str(T)], TRUE, FALSE, TRUE)}

\* the i-th smallest number of a set
Nth(S, i) == CHOOSE x \in S : Cardinality({y \in S : y < x}) = i - 1

\* the posts directories: up to MaxFiles of the names, each with a content
PostDirs ==
    UNION {{[i \in 1..Cardinality(S) |->
                spread([name |-> PostNames[Nth(S, i)]], c[Nth(S, i)])] :
              c \in [S -> FileContents]} :
           S \in {X \in SUBSET (1..Len(PostNames)) : Cardinality(X) <= MaxFiles}}

Pending == [done |-> FALSE, ok |-> FALSE, post |-> NoPost]

PostsInit ==
    /\ fpc = "ready"
    /\ args \in [files : PostDirs, listable : BOOLEAN]
    /\ ret = [results |-> <<>>, posts |-> <<>>, log |-> {}, threw |-> FALSE, tags |-> <<>>]

\* loadAllPosts up to its Promise.all: listFiles, then one processPostFile
\* call per file, each suspended at its readFile
ListFiles ==
    /\ fpc = "ready"
    /\ IF ~args.listable
       THEN /\ ret' = [ret EXCEPT !.log = {[level |-> "error", file |-> <<>>]}]
            /\ fpc' = "loadAllPosts"
       ELSE IF args.files = <<>>
       THEN /\ ret' = [ret EXCEPT !.log = {[level |-> "warn", file |-> <<>>]}]
            /\ fpc' = "loadAllPosts"
       ELSE /\ ret' = [ret EXCEPT !.results = [i \in 1..Len(args.files) |-> Pending]]
            /\ fpc' = "loading"
    /\ UNCHANGED <<args, bvars, tvars>>

\* the processPostFile call of file i runs to its end
ProcessPostFile(i) ==
    /\ fpc = "loading"
    /\ ~ret.results[i].done
    /\ LET r == processPostFile(args.files[i], i)
       IN ret' = [ret EXCEPT !.results[i] = [done |-> TRUE, ok |-> r.ok, post |-> r.post],
                             !.log = @ \cup r.log]
    /\ UNCHANGED <<fpc, args, bvars, tvars>>

\* Promise.all resolves: filter, sort, return
ReturnPosts ==
    /\ fpc = "loading"
    /\ \A i \in 1..Len(ret.results) : ret.results[i].done
    /\ ret' = [ret EXCEPT !.posts = sortByDate(validPosts(ret.results))]
    /\ fpc' = "loadAllPosts"
    /\ UNCHANGED <<args, bvars, tvars>>

\* extractTags(posts) on the documents loadAllPosts returned
ExtractTags ==
    /\ fpc = "loadAllPosts"
    /\ ret' = [ret EXCEPT !.threw = extractTagsThrows(ret.posts),
                          !.tags = IF extractTagsThrows(ret.posts) THEN <<>>
                                   ELSE extractTags(ret.posts)]
    /\ fpc' = "extractTags"
    /\ UNCHANGED <<args, bvars, tvars>>

PostsNext ==
    \/ ListFiles
    \/ \E i \in 1..MaxFiles : i <= Len(args.files) /\ ProcessPostFile(i)
    \/ ReturnPosts
    \/ ExtractTags

\* ---- loadTemplate ----
TemplateNames == {"base", "post"}

UserTemplates ==
    {TemplateFile(FALSE, <<>>), TemplateFile(TRUE, <<>>), TemplateFile(TRUE, <<"U">>)}

EngineTemplates == {TemplateFile(FALSE, <<>>), TemplateFile(TRUE, <<"D">>)}

LoadTemplateInit ==
    /\ fpc = "ready"
    /\ args \in [files : [TemplateNames -> [user : UserTemplates, engine : EngineTemplates]],
                  cacheTemplates : BOOLEAN]
    /\ ret = [cache |-> [name \in TemplateNames |-> NotCached], name |-> "base",
              result |-> <<>>, log |-> {}, threw |-> FALSE, calls |-> 0,
              moduleCacheTemplates |-> TRUE, read |-> FALSE]

\* one call loadTemplate(name)
LoadTemplate(name) ==
    /\ fpc \in {"ready", "loadTemplate", "updateConfig"}
    /\ ret.calls < MaxCalls
    /\ LET r == loadTemplate(name, args.files, args.cacheTemplates, ret.cache)
       IN ret' = [ret EXCEPT !.cache = r.cache, !.name = name, !.result = r.result,
                             !.log = r.log, !.threw = r.threw, !.calls = ret.calls + 1,
                             !.read = r.read]
    /\ fpc' = "loadTemplate"
    /\ UNCHANGED <<args, bvars, tvars>>

\* one call updateConfig({cacheTemplates})
UpdateTemplateConfig(cacheTemplates) ==
    /\ fpc \in {"ready", "loadTemplate", "updateConfig"}
    /\ ret.moduleCacheTemplates # cacheTemplates
    /\ LET r == updateConfig(cacheTemplates, ret.cache)
       IN ret' = [ret EXCEPT !.moduleCacheTemplates = r.cacheTemplates,
                             !.cache = r.cache]
    /\ fpc' = "updateConfig"
    /\ UNCHANGED <<args, bvars, tvars>>

LoadTemplateNext ==
    \/ \E name \in TemplateNames : LoadTemplate(name)
    \/ \E cacheTemplates \in BOOLEAN : UpdateTemplateConfig(cacheTemplates)

\* ---- the theme toggle: one page view ----
ThemeInit ==
    /\ fpc = "ready"
    /\ args \in [stored : {"none", "true", "false"}, prefersDark : BOOLEAN]
    /\ ret = [page |-> [dark |-> FALSE, stored |-> args.stored],
              prefersDark |-> args.prefersDark, clicks |-> 0, changes |-> 0]

\* DOMContentLoaded: initializeTheme(), setupEventListeners()
DOMContentLoaded ==
    /\ fpc = "ready"
    /\ ret' = [ret EXCEPT !.page = initializeTheme(ret.page, ret.prefersDark)]
    /\ fpc' = "listening"
    /\ UNCHANGED <<args, bvars, tvars>>

\* the user clicks the toggle button
ToggleClick ==
    /\ fpc = "listening"
    /\ ret.clicks < MaxClicks
    /\ ret' = [ret EXCEPT !.page = onToggleClick(ret.page), !.clicks = @ + 1]
    /\ UNCHANGED <<fpc, args, bvars, tvars>>

\* the system colour scheme changes; before the page has loaded no
\* listener hears it
SystemChange ==
    /\ fpc \in {"ready", "listening"}
    /\ ret.changes < MaxChanges
    /\ ret' = [ret EXCEPT !.prefersDark = ~ret.prefersDark,
                          !.changes = @ + 1,
                          !.page = IF fpc = "listening"
                                   THEN onSystemChange(ret.page, ~ret.prefersDark)
                                   ELSE ret.page]
    /\ UNCHANGED <<fpc, args, bvars, tvars>>

ThemeNext ==
    \/ DOMContentLoaded
    \/ ToggleClick
    \/ SystemChange

\* ---- the markdown render cache ----
RenderCacheInit ==
    /\ fpc = "ready"
    /\ args \in [cacheRendering : BOOLEAN]
    /\ ret = [renderCache |-> <<>>, history |-> <<>>]

\* renderMarkdown(markdown) of a non-empty text that marked renders
RenderMarkdown(markdown) ==
    /\ fpc \in {"ready", "renderMarkdown"}
    /\ Len(ret.history) < MaxRenders
    /\ ret' = [renderCache |-> renderMarkdownCache(ret.renderCache, markdown,
                                                   args.cacheRendering),
               history |-> Append(ret.history, markdown)]
    /\ fpc' = "renderMarkdown"
    /\ UNCHANGED <<args, bvars, tvars>>

RenderCacheNext == \E markdown \in 1..MaxTexts : RenderMarkdown(markdown)

\* ---- loadConfig ----
\* the directories of the config files
BasePaths == {<<"cwd", "blog">>, <<"other">>}

\* a config file: missing, without a paths section, with paths.outputDir
UserConfigs == {"missing", "noPaths", "paths"}

OutputDirs == {"none", "./out", "/srv/www"}

LoadConfigInit ==
    /\ fpc = "ready"
    /\ args \in [files : [BasePaths -> UserConfigs]]
    /\ ret = [defaults |-> DEFAULT_PATHS, config |-> addDerivedProperties(DEFAULT_PATHS),
              configDir |-> <<>>, outputDir |-> "none"]

\* one call loadConfig({ configPath, useCache: false, outputDir })
LoadConfigCall(configDir, outputDir) ==
    /\ fpc \in {"ready", "loadConfig"}
    /\ LET r == loadConfigPaths(ret.defaults, args.files[configDir], configDir, outputDir)
       IN ret' = [defaults |-> r.defaults, config |-> r.config,
                  configDir |-> configDir, outputDir |-> outputDir]
    /\ fpc' = "loadConfig"
    /\ UNCHANGED <<args, bvars, tvars>>

LoadConfigNext == \E configDir \in BasePaths, outputDir \in OutputDirs : LoadConfigCall(configDir, outputDir)

\* ---- fileHandler ----
FilePaths == {"p1", "p2", "p3"}

FileTexts == {"", "x"}

FileCacheInit ==
    /\ fpc = "ready"
    /\ args \in [disk : [FilePaths -> FileTexts]]
    /\ ret = [st |-> [disk |-> args.disk, cache |-> <<>>, enableCache |-> TRUE, now |-> 0],
              op |-> "none", path |-> "none", result |-> "none", full |-> FALSE]

ReadFile(filePath) ==
    /\ fpc \in {"ready", "fileHandler"}
    /\ LET r == readFile(ret.st, filePath)
       IN ret' = [st |-> r.st, op |-> "readFile", path |-> filePath,
                  result |-> r.result, full |-> r.full]
    /\ fpc' = "fileHandler"
    /\ UNCHANGED <<args, bvars, tvars>>

WriteFile(filePath, content) ==
    /\ fpc \in {"ready", "fileHandler"}
    /\ LET r == writeFile(ret.st, filePath, content)
       IN ret' = [st |-> r.st, op |-> "writeFile", path |-> filePath,
                  result |-> "none", full |-> r.full]
    /\ fpc' = "fileHandler"
    /\ UNCHANGED <<args, bvars, tvars>>

CopyFile(sourcePath, destPath) ==
    /\ fpc \in {"ready", "fileHandler"}
    /\ ret' = [st |-> copyFile(ret.st, sourcePath, destPath), op |-> "copyFile",
               path |-> destPath, result |-> "none", full |-> FALSE]
    /\ fpc' = "fileHandler"
    /\ UNCHANGED <<args, bvars, tvars>>

UpdateFileConfig(enableCache) ==
    /\ fpc \in {"ready", "fileHandler"}
    /\ ret' = [st |-> updateFileConfig(ret.st, enableCache), op |-> "updateConfig",
               path |-> "none", result |-> "none", full |-> FALSE]
    /\ fpc' = "fileHandler"
    /\ UNCHANGED <<args, bvars, tvars>>

ClearFileCache ==
    /\ fpc \in {"ready", "fileHandler"}
    /\ ret' = [st |-> clearFileCache(ret.st), op |-> "clearCache",
               path |-> "none", result |-> "none", full |-> FALSE]
    /\ fpc' = "fileHandler"
    /\ UNCHANGED <<args, bvars, tvars>>

\* Date.now() moves on
Tick ==
    /\ fpc \in {"ready", "fileHandler"}
    /\ ret.st.now < MaxTime
    /\ ret' = [ret EXCEPT !.st.now = @ + 1, !.op = "tick", !.full = FALSE]
    /\ UNCHANGED <<fpc, args, bvars, tvars>>

\* the calls made through the module, with the cache left enabled
FileIONext ==
    \/ \E filePath \in FilePaths : ReadFile(filePath)
    \/ \E filePath \in FilePaths, content \in FileTexts : WriteFile(filePath, content)
    \/ \E sourcePath, destPath \in FilePaths : CopyFile(sourcePath, destPath)
    \/ Tick

FileCacheNext ==
    \/ FileIONext
    \/ \E enableCache \in BOOLEAN : UpdateFileConfig(enableCache)
    \/ ClearFileCache

\* ---- tag links ----
TagChars == {"a", " ", "_"}

TagNames == UNION {[1..n -> TagChars] : n \in 1..MaxTagLen}

TaggedPosts ==
    UNION {{[i \in 1..n |-> [file |-> FileNames[i], tags |-> tl[i]]] :
              tl \in [1..n -> {<<>>} \cup {<<t>> : t \in TagNames}]} : n \in 0..MaxTagPosts}

TagLinksInit ==
    /\ fpc = "ready"
    /\ args \in [posts : TaggedPosts]
    /\ ret = [done |-> {}, dirs |-> {}, cards |-> {}, index |-> {}, sitemap |-> {}]

\* generatePostCard / buildPostPages: generateTagsList(post.tags) of every post
GenerateTagsLists ==
    /\ fpc \in {"ready", "tags"}
    /\ "cards" \notin ret.done
    /\ ret' = [ret EXCEPT !.done = @ \cup {"cards"},
                          !.cards = UNION {generateTagsList(args.posts[i].tags) :
                                             i \in 1..Len(args.posts)}]
    /\ fpc' = "tags"
    /\ UNCHANGED <<args, bvars, tvars>>

BuildTagPages ==
    /\ fpc \in {"ready", "tags"}
    /\ "dirs" \notin ret.done
    /\ ret' = [ret EXCEPT !.done = @ \cup {"dirs", "index"},
                          !.dirs = buildTagPages(args.posts),
                          !.index = buildTagsIndexPage(args.posts)]
    /\ fpc' = "tags"
    /\ UNCHANGED <<args, bvars, tvars>>

BuildSitemap ==
    /\ fpc \in {"ready", "tags"}
    /\ "sitemap" \notin ret.done
    /\ ret' = [ret EXCEPT !.done = @ \cup {"sitemap"},
                          !.sitemap = buildSitemap(args.posts)]
    /\ fpc' = "tags"
    /\ UNCHANGED <<args, bvars, tvars>>

TagLinksNext == GenerateTagsLists \/ BuildTagPages \/ BuildSitemap

\* ---- createPost ----
Titles == [slug : {"a", "b"}, text : {1, 2}]

\* a post the author wrote by hand
WrittenPost == [slug |-> "a", suffix |-> 0, content |-> [title |-> [slug |-> "a", text |-> 1], date |-> 0]]

CreatePostInit ==
    /\ fpc = "ready"
    /\ args \in [files : {{}, {WrittenPost}}]
    /\ ret = [files |-> args.files, day |-> 1, success |-> FALSE, calls |-> 0]

\* one call createPost(title)
CreatePost(title, writable) ==
    /\ fpc \in {"ready", "createPost"}
    /\ ret.calls < MaxCreates
    /\ LET r == createPost(ret.files, title, ret.day, writable)
       IN ret' = [ret EXCEPT !.files = r.files, !.success = r.success, !.calls = @ + 1]
    /\ fpc' = "createPost"
    /\ UNCHANGED <<args, bvars, tvars>>

\* midnight passes
NextDay ==
    /\ fpc \in {"ready", "createPost"}
    /\ ret.day < MaxDays
    /\ ret' = [ret EXCEPT !.day = @ + 1]
    /\ UNCHANGED <<fpc, args, bvars, tvars>>

CreatePostNext ==
    \/ \E title \in Titles, writable \in BOOLEAN : CreatePost(title, writable)
    \/ NextDay

\* one buildSite run, from any input
Init == BuildInit /\ TemplateIdle /\ CallIdle

Next == BuildNext

Spec == Init /\ [][Next]_vars

\* one processTemplate call, from any template and context
InitTemplate == TemplateInit /\ BuildIdle /\ CallIdle

SpecTemplate == InitTemplate /\ [][TemplateNext]_vars

\* one loadAllPosts call and extractTags on its result, from any directory
InitPosts == PostsInit /\ BuildIdle /\ TemplateIdle

SpecPosts == InitPosts /\ [][PostsNext]_vars

\* loadTemplate calls of one run, over any template files
InitLoadTemplate == LoadTemplateInit /\ BuildIdle /\ TemplateIdle

SpecLoadTemplate == InitLoadTemplate /\ [][LoadTemplateNext]_vars

\* one page view with the theme toggle script
InitTheme == ThemeInit /\ BuildIdle /\ TemplateIdle

SpecTheme == InitTheme /\ [][ThemeNext]_vars

\* one processTemplate call on a template with nested blocks
InitNested == NestedInit /\ BuildIdle /\ CallIdle

SpecNested == InitNested /\ [][TemplateNext]_vars

\* renderMarkdown calls of one run
InitRenderCache == RenderCacheInit /\ BuildIdle /\ TemplateIdle

SpecRenderCache == InitRenderCache /\ [][RenderCacheNext]_vars

\* loadConfig calls of one process
InitLoadConfig == LoadConfigInit /\ BuildIdle /\ TemplateIdle

SpecLoadConfig == InitLoadConfig /\ [][LoadConfigNext]_vars

\* any calls of the fileHandler module
InitFileCache == FileCacheInit /\ BuildIdle /\ TemplateIdle

SpecFileCache == InitFileCache /\ [][FileCacheNext]_vars

\* reads, writes and copies with the cache enabled
SpecFileIO == InitFileCache /\ [][FileIONext]_vars

\* the tag pages and the links to them, from any tagged documents
InitTagLinks == TagLinksInit /\ BuildIdle /\ TemplateIdle

SpecTagLinks == InitTagLinks /\ [][TagLinksNext]_vars

\* createPost calls over some days
InitCreatePost == CreatePostInit /\ BuildIdle /\ TemplateIdle

SpecCreatePost == InitCreatePost /\ [][CreatePostNext]_vars

\* one call of the paginator, from any arguments
InitPaginate == PaginateInit /\ BuildIdle /\ TemplateIdle

SpecPaginate == InitPaginate /\ [][PaginateNext]_vars


(***************************************************************************)
(* Claims on buildSite                                                     *)
(***************************************************************************)
Settled == bpc \in {"returned", "raised"}

FailedTasks == {t \in Tasks : tasks[t].status = "failed"}

Written(p) == \E w \in writes : w.path = p

\* C1: during one buildSite run no output path is written by more than one
\* of the page-type tasks, tags/index.html included.
C1_NoPathWrittenByTwoTasks ==
    \A w1 \in writes : \A w2 \in writes :
        (w1.path = w2.path /\ w1.by \in Tasks /\ w2.by \in Tasks) => w1.by = w2.by

\* C2: when exactly one page-type task (home listing, post pages, tag pages,
\* tag index or sitemap) fails, the failure is logged, buildSite does not
\* raise, and once it has settled every other page type has been produced.
C2_OneFailureIsSkipped ==
    \A t \in {"buildHomePage", "buildPostPages", "buildTagPages",
              "buildTagsIndexPage", "buildSitemap"} :
        FailedTasks = {t} =>
            /\ t \in logged
            /\ bpc \notin {"catch", "raised"}
            /\ Settled => \A u \in Tasks \ {t} : tasks[u].status = "ok"

\* C3: when buildSite settles (returns or raises), every dispatched task has
\* run to its end and has no output write left to perform.
C3_SettlesAfterEveryTask ==
    Settled => \A t \in Tasks :
                   /\ tasks[t].status \in {"idle", "ok", "failed"}
                   /\ tasks[t].pending = {}

\* C4: every buildSite run that returns has written /404.html.
C4_ReturnedBuildWroteErrorPage == bpc = "returned" => Written(ErrorPath)

\* the config file is there and parses, and sets content.postsPerPage below
\* the schema's minimum of 1
InvalidUserConfig(f) == f.file = "ok" /\ f.hasPostsPerPage /\ f.postsPerPage < 1

NeverDispatched == \A t \in Tasks : tasks[t] = IdleTask

\* C5 (as claimed): when the config file is unreadable or unparsable, or
\* validation fails, buildSite never dispatches the page-type tasks and never
\* returns normally.
C5_UnloadableConfigAborts ==
    (input.cfgFile.file # "ok" \/ InvalidUserConfig(input.cfgFile)) =>
        /\ NeverDispatched
        /\ bpc \in {"start", "catch", "raised"}

\* C5 (amended): when validation of the configuration fails, buildSite never
\* dispatches the page-type tasks and never returns normally: it calls
\* buildErrorPage and raises once that has settled.  An unreadable or
\* unparsable config file is not fatal: the build goes on with DEFAULT_CONFIG
\* and raises only if a task fails.
C5_InvalidConfigAborts ==
    /\ InvalidUserConfig(input.cfgFile) =>
          /\ NeverDispatched
          /\ bpc \in {"start", "catch", "raised"}
          /\ bpc = "catch" => errPage = "pending"
          /\ bpc = "raised" => errPage \in {"written", "failed"}
    /\ (input.cfgFile.file # "ok" /\ bpc # "start") =>
          /\ config = DEFAULT_CONFIG
          /\ (bpc \in {"catch", "raised"} => FailedTasks # {})

\* an invalid config has made buildSite write 404.html and raise
C5_Witness ==
    /\ InvalidUserConfig(input.cfgFile)
    /\ bpc = "raised"
    /\ errPage = "written"
    /\ Written(ErrorPath)

(***************************************************************************)
(* Claims on the template engine                                           *)
(***************************************************************************)
IsFlat(body) == \A n \in 1..Len(body) : body[n].t \in {"lit", "var"}

\* the text with each variable reference replaced by its value's string,
\* and nothing else read in it
SubstituteOnce(body, ctx) ==
    Concat([n \in 1..Len(body) |->
        IF body[n].t = "var"
        THEN LET value == getNestedValue(ctx, body[n].a)
             IN IF value.k = "undef" THEN <<>> ELSE ToText(value)
        ELSE <<body[n]>>])

\* a context with the fields of the element at (zero-based) position n,
\* _parent the enclosing context and _index the number given
ElementContextAt(items, n, ctx, index) ==
    Obj((IF items[n + 1].k = "obj" THEN items[n + 1].o ELSE <<>>)
          \o <<Field(<<"_parent">>, ctx), Field(<<"_index">>, Num(index))>>, 0)

\* the child context of the element at (zero-based) position n
ElementContext(items, n, ctx) == ElementContextAt(items, n, ctx, n)

IsNonEmptyArray(v) == v.k = "arr" /\ Len(v.xs) > 0

\* C6: within one processTemplate call the text put in for a variable is not
\* read again as a directive or a variable: with nothing but literals and
\* variables in the bodies, the output is the bodies with every variable
\* replaced once by its value.
C6_SubstitutedTextIsVerbatim ==
    (tpc = "done" /\ IsFlat(template.a) /\ IsFlat(template.b)) =>
        output =
            CASE template.kind = "each" ->
                    LET items == getNestedValue(data, template.arg)
                    IN IF IsNonEmptyArray(items)
                       THEN Concat([n \in 1..Len(items.xs) |->
                                SubstituteOnce(template.a,
                                    ElementContext(items.xs, n - 1, data))])
                       ELSE <<>>
              [] template.kind = "if" ->
                    SubstituteOnce(IF evalCondition(template.arg, data)
                                   THEN template.a ELSE template.b, data)
              [] OTHER -> SubstituteOnce(template.a, data)

C11_ChildContextHasPositionAsIndex ==
    (tpc = "each-done" /\ template.kind = "each") =>
        LET items == getNestedValue(data, template.arg)
        IN IsNonEmptyArray(items) =>
              output = Concat([n \in 1..Len(items.xs) |->
                          processTemplate(template.a,
                                          ElementContext(items.xs, n - 1, data))])

HasSpace(cond) == \E i \in 1..Len(cond) : cond[i] = " "

IsComparison(cond) ==
    /\ HasSpace(cond)
    /\ Len(Split(cond, " ")) = 3
    /\ Split(cond, " ")[2] \in Operators

\* an operand as the claim has it: the value at the path, its literal text
\* only when there is none
Operand(word, ctx) ==
    IF getNestedValue(ctx, word).k = "undef" THEN Str(<<Lit(word)>>)
    ELSE getNestedValue(ctx, word)

Compare(cond, ctx) ==
    LET l == Operand(Split(cond, " ")[1], ctx)
        op == Split(cond, " ")[2]
        r == Operand(Split(cond, " ")[3], ctx)
    IN CASE op = <<"==">> -> LooseEquals(l, r)
         [] op = <<"===">> -> StrictEquals(l, r)
         [] op = <<"!=">> -> ~LooseEquals(l, r)
         [] OTHER -> ~StrictEquals(l, r)

\* C9: in `left op right` each operand is its resolved value, 0, false and
\* the empty string included, and its literal text only when it resolves to
\* nothing; the branch rendered is the one that comparison selects.
C9_ComparisonUsesResolvedValues ==
    (tpc = "if-done" /\ template.kind = "if" /\ IsComparison(template.arg)) =>
        output = processTemplate(IF Compare(template.arg, data)
                                 THEN template.a ELSE template.b, data)

\* C10: a condition with whitespace that is not `left op right` evaluates to
\* false for every context: the else branch (or nothing) is rendered.
C10_MalformedConditionIsFalse ==
    (tpc = "if-done" /\ template.kind = "if" /\ HasSpace(template.arg)
        /\ ~IsComparison(template.arg)) =>
        output = processTemplate(template.b, data)

\* C23: a block inside the body of a block of the same type is paired by
\* nesting depth: the outer block's body reaches to its own closing tag and
\* the inner block is evaluated inside it against the child context (for
\* conditionals, the same context).
C23_NestedBlocksPairByDepth ==
    tpc = "done" =>
        CASE template.kind = "nested-each" ->
                LET items == getNestedValue(data, template.arg)
                IN output =
                     IF IsNonEmptyArray(items)
                     THEN Concat([n \in 1..Len(items.xs) |->
                             LET child == ElementContext(items.xs, n - 1, data)
                                 inner == getNestedValue(child, InnerPath)
                             IN <<Lit(<<"A">>)>>
                                  \o (IF IsNonEmptyArray(inner)
                                      THEN Concat([m \in 1..Len(inner.xs) |->
                                              processTemplate(template.a,
                                                  ElementContext(inner.xs, m - 1, child))])
                                      ELSE <<>>)
                                  \o <<Lit(<<"B">>)>>])
                     ELSE <<>>
          [] template.kind = "nested-if" ->
                output =
                    IF Truthy(getNestedValue(data, template.arg))
                    THEN <<Lit(<<"A">>)>>
                           \o (IF Truthy(getNestedValue(data, Q))
                               THEN processTemplate(template.a, data) ELSE <<>>)
                           \o <<Lit(<<"B">>)>>
                    ELSE <<>>
          [] OTHER -> TRUE

(***************************************************************************)
(* Claims on the paginator                                                 *)
(***************************************************************************)
\* C12: for perPage >= 1 paginateItems returns ceil(n/perPage) windows (none
\* for an empty list); window k holds exactly the items at the indexes
\* [(k-1)*perPage, k*perPage), so the windows concatenated are the input;
\* only window 1 has isFirstPage.
C12_WindowsPartitionTheItems ==
    fpc = "paginateItems" =>
        LET n == Len(args.items)
            pp == args.perPage
        IN /\ Len(ret) * pp >= n
           /\ Len(ret) > 0 => (Len(ret) - 1) * pp < n
           /\ \A k \in 1..Len(ret) :
                 LET w == ret[k].itemsForPage
                     indexes == {i \in 0..(n - 1) : (k - 1) * pp <= i /\ i < k * pp}
                 IN /\ ret[k].page = k
                    /\ Len(w) = Cardinality(indexes)
                    /\ \A j \in 1..Len(w) : w[j] = args.items[(k - 1) * pp + j]
                    /\ ret[k].isFirstPage <=> k = 1
           /\ Concat([k \in 1..Len(ret) |-> ret[k].itemsForPage]) = args.items

\* five items in pages of two: three windows, the last of one item
C12_Witness ==
    /\ fpc = "paginateItems"
    /\ Len(args.items) = 5
    /\ args.perPage = 2
    /\ Len(ret) = 3
    /\ Len(ret[3].itemsForPage) = 1

\* C13: calculatePagination returns max(1, current-2) .. min(total,
\* current+2), widened to exactly five pages toward the boundary that is not
\* at the edge when totalPages > 4; start <= current <= end within
\* 1..totalPages; showFirst/showLast tell that the range excludes page 1 /
\* the last page, the ellipsis flags that the gap is more than one page.
C13_PaginationRange ==
    fpc = "calculatePagination" =>
        LET c == args.currentPage
            t == args.totalPages
            s0 == IF c - 2 > 1 THEN c - 2 ELSE 1
            e0 == IF c + 2 < t THEN c + 2 ELSE t
        IN /\ IF t > 4
              THEN /\ ret.endPage - ret.startPage = 4
                   /\ s0 = 1 => ret.startPage = 1
                   /\ e0 = t => ret.endPage = t
                   /\ (s0 # 1 /\ e0 # t) => (ret.startPage = s0 /\ ret.endPage = e0)
              ELSE ret.startPage = s0 /\ ret.endPage = e0
           /\ 1 <= ret.startPage
           /\ ret.startPage <= c
           /\ c <= ret.endPage
           /\ ret.endPage <= t
           /\ ret.showFirst <=> ret.startPage > 1
           /\ ret.showLast <=> ret.endPage < t
           /\ ret.showFirstEllipsis <=> ret.startPage > 2
           /\ ret.showLastEllipsis <=> ret.endPage < t - 1

\* the last of seven pages: the range is widened downwards to 3..7
C13_Witness ==
    /\ fpc = "calculatePagination"
    /\ args.currentPage = 7
    /\ args.totalPages = 7
    /\ ret.startPage = 3
    /\ ret.showFirstEllipsis

\* the file a web server answers a directory URL with
ServedFile(url) == Path(url.dir, <<>>, url.n, "index.html")

\* C14: every link of generatePagination goes to basePath for page 1 and to
\* basePath + "page/" + k + "/" for a page k in 2..totalPages; and every
\* link of a listing page goes to a file buildHomePage writes for the same
\* items and page size (page 1 at /index.html, page k at /page/k/index.html).
C14_LinksTargetWrittenPages ==
    /\ fpc = "generatePagination" =>
          \A l \in ret :
              \E k \in 1..args.totalPages :
                  l.url = IF k = 1 THEN Url("", 0) ELSE Url("page", k)
    /\ fpc = "paginateItems" =>
          \A k \in 1..Len(ret) :
              /\ (IF k = 1 THEN HomePath ELSE PagePath(k)) \in
                     FirstWrites("buildHomePage", args.items,
                                 [postsPerPage |-> args.perPage], [about |-> FALSE])
              /\ \A l \in ret[k].pagination :
                     ServedFile(l.url) \in
                         FirstWrites("buildHomePage", args.items,
                                     [postsPerPage |-> args.perPage], [about |-> FALSE])

\* page 2 of three listing pages links back to basePath and on to page/3/
C14_Witness ==
    /\ fpc = "paginateItems"
    /\ Len(ret) = 3
    /\ Link("prev", Url("", 0)) \in ret[2].pagination
    /\ Link("next", Url("page", 3)) \in ret[2].pagination

(***************************************************************************)
(* Claims on the content pipeline                                          *)
(***************************************************************************)
\* the frontmatter has no usable value under the key (missing, null, empty)
Missing(f, key) == ~(key \in DOMAIN f.data /\ Truthy(f.data[key]))

\* the id of a document: its file name without extension, spaces replaced
IdOf(f) == replaceAll(replaceFirst(f.name, ".md", <<>>), " ", "_")

Warned(f, key) == [level |-> "warn", file |-> f.name, field |-> key] \in ret.log

\* C15: every Document processPostFile returns has a defined, non-empty
\* title and date, whatever the file and its frontmatter; a missing title is
\* made from the file name and a missing date from the modification time,
\* each with a warning.
C15_TitleAndDateNeverEmpty ==
    fpc \in {"loading", "loadAllPosts"} =>
        \A i \in 1..Len(ret.results) :
            ret.results[i].ok =>
                LET f == args.files[i]
                    post == ret.results[i].post
                IN /\ Truthy(post.title)
                   /\ Truthy(post.date)
                   /\ Missing(f, "title") => Warned(f, "title")
                   /\ Missing(f, "date") => (post.date = Num(f.mtime) /\ Warned(f, "date"))

\* the files whose processing fails in a step other than rendering
Unprocessable(f) == ~f.readable \/ (Missing(f, "date") /\ ~f.statable)

RenderingFails(f) == f.body # <<>> /\ ~f.renders

Returned == {ret.posts[k].ref : k \in 1..Len(ret.posts)}

\* C16: loadAllPosts returns no document whose markdown rendering failed
\* and none whose processing failed otherwise, and returns every other
\* document of the directory.
C16_FailedDocumentsAreExcluded ==
    (fpc = "loadAllPosts" /\ args.listable) =>
        \A i \in 1..Len(args.files) :
            i \in Returned <=>
                (~RenderingFails(args.files[i]) /\ ~Unprocessable(args.files[i]))

\* C17: loadAllPosts returns each successfully loaded document once, newest
\* first, documents of the same date in the order of the file listing,
\* whatever the order the per-file loads completed in.
C17_SortedByDateStable ==
    (fpc = "loadAllPosts" /\ args.listable) =>
        /\ Returned = {i \in 1..Len(ret.results) : ret.results[i].ok}
        /\ Len(ret.posts) = Cardinality(Returned)
        /\ \A k \in 1..Len(ret.posts) : ret.posts[k] = ret.results[ret.posts[k].ref].post
        /\ \A k \in 1..Len(ret.posts) : \A l \in (k + 1)..Len(ret.posts) :
              \/ ret.posts[k].date.n > ret.posts[l].date.n
              \/ /\ ret.posts[k].date.n = ret.posts[l].date.n
                 /\ ret.posts[k].ref < ret.posts[l].ref

\* the oldest document is listed first and returned last, behind two
\* documents of one date that keep their listing order
C17_Witness ==
    /\ fpc = "loadAllPosts"
    /\ Len(ret.posts) = 3
    /\ ret.posts[1].ref = 2
    /\ ret.posts[2].ref = 3
    /\ ret.posts[3].ref = 1
    /\ ret.posts[1].date = ret.posts[2].date

\* C18: the url of a Document is "/posts/" + id + "/" with the id derived
\* from the file name, whatever the frontmatter holds; the frontmatter
\* changes neither url, file, rendered body nor reading time, and the page
\* of the document is written at posts/<id>/index.html.
C18_DerivedFieldsSurviveMetadata ==
    fpc \in {"loading", "loadAllPosts"} =>
        \A i \in 1..Len(ret.results) :
            ret.results[i].ok =>
                LET f == args.files[i]
                    post == ret.results[i].post
                IN /\ post.url = <<"/posts/">> \o IdOf(f) \o <<"/">>
                   /\ post.file = IdOf(f)
                   /\ post.html = renderMarkdown(f)
                   /\ post.readingTime = calculateReadingTime(f)
                   /\ PostPath(post) = Path("posts", IdOf(f), 0, "index.html")

\* the documents of a list that carry the tag, in the order of the list
RECURSIVE Carrying(_, _)
Carrying(ps, tag) ==
    IF ps = <<>> THEN <<>>
    ELSE (IF tag \in Range(Head(ps).tags) THEN <<Head(ps)>> ELSE <<>>)
           \o Carrying(Tail(ps), tag)

\* C19: for every document list extractTags returns a mapping whose keys
\* are exactly the tags of the documents, each with exactly the documents
\* that carry it, in processing order.
C19_TagIndexGroupsDocuments ==
    fpc = "extractTags" =>
        /\ ~ret.threw
        /\ {ret.tags[k].tag : k \in 1..Len(ret.tags)} =
              UNION {Range(ret.posts[i].tags) : i \in 1..Len(ret.posts)}
        /\ \A k \in 1..Len(ret.tags) :
              ret.tags[k].posts = Carrying(ret.posts, ret.tags[k].tag)

(***************************************************************************)
(* Claims on loadTemplate                                                  *)
(***************************************************************************)
\* C20: loadTemplate(name) returns the content of the project-level file
\* when that exists, else the content of the built-in default when that
\* exists, else it logs and returns the empty string; it never raises,
\* whichever of the two files exist.
C20_TemplateResolutionOrder ==
    fpc = "loadTemplate" =>
        LET user == args.files[ret.name].user
            engine == args.files[ret.name].engine
        IN /\ ~ret.threw
           /\ ret.result = IF user.exists THEN user.text
                           ELSE IF engine.exists THEN engine.text
                           ELSE <<>>
           /\ (ret.name \in ret.log) <=> (~user.exists /\ ~engine.exists)

\* a template without a project-level file came from the built-in default,
\* in a run where another template has neither file
C20_Witness ==
    /\ fpc = "loadTemplate"
    /\ ret.name = "post"
    /\ ~args.files["post"].user.exists
    /\ ret.result = <<"D">>
    /\ ~args.files["base"].user.exists
    /\ ~args.files["base"].engine.exists
    /\ ret.calls = 2

\* C21: with the template engine's caching on (its default), a loadTemplate
\* call that follows a successful call for the same name returns the
\* memoized text without reading storage and leaves the cache entries as
\* they are; with caching switched off by updateConfig, the call reads
\* storage again.
C21_CachingFollowsEngineConfig ==
    [][(/\ fpc = "loadTemplate"
        /\ fpc' = "loadTemplate"
        /\ ret'.name = ret.name
        /\ ret.name \notin ret.log)
         => IF ret.moduleCacheTemplates
            THEN ~ret'.read /\ ret'.result = ret.result /\ ret'.cache = ret.cache
            ELSE ret'.read]_vars

(***************************************************************************)
(* Claims on the theme toggle                                              *)
(***************************************************************************)
\* C22: a change of the system colour scheme changes the page theme if and
\* only if the user has set no preference with the toggle button: on a page
\* initialised without a stored preference and not clicked since, the theme
\* follows the change; once the toggle has been clicked it never does.
C22_SystemChangeFollowedUnlessUserChose ==
    [][(fpc = "listening" /\ ret'.changes = ret.changes + 1)
         => IF args.stored = "none" /\ ret.clicks = 0
            THEN ret'.page.dark = ret'.prefersDark
            ELSE ret'.page.dark = ret.page.dark]_vars

(***************************************************************************)
(* Claims on the home page                                                 *)
(***************************************************************************)
\* C30: a buildSite run that returns has written the home page
\* /index.html, also when there is no document or the posts directory
\* cannot be listed.
C30_ReturnedBuildWroteHomePage == bpc = "returned" => Written(HomePath)

(***************************************************************************)
(* Claims on loadConfig                                                    *)
(***************************************************************************)
\* C29: loadConfig leaves DEFAULT_CONFIG as it was, and a call with
\* useCache=false returns what the same call returns as the first call of
\* the process, whatever calls came before it.
C29_LoadConfigDependsOnArgumentsOnly ==
    fpc = "loadConfig" =>
        /\ ret.defaults = DEFAULT_PATHS
        /\ ret.config = loadConfigPaths(DEFAULT_PATHS, args.files[ret.configDir],
                                        ret.configDir, ret.outputDir).config

(***************************************************************************)
(* Claims on the file cache                                                *)
(***************************************************************************)
\* C27: the file cache never holds more than MAX_CACHE_SIZE entries; it is
\* empty while caching is disabled; and an insertion that finds it full
\* evicts exactly the oldest-inserted entry: the other entries stay, in
\* their order, and the inserted path comes last.
C27_FileCacheBounded ==
    /\ [](/\ Len(ret.st.cache) <= MAX_CACHE_SIZE
          /\ ~ret.st.enableCache => ret.st.cache = <<>>)
    /\ [][ret'.full =>
            /\ Len(ret.st.cache) = MAX_CACHE_SIZE
            /\ cacheKeys(ret'.st.cache) =
                  (cacheKeys(ret.st.cache) \ {Head(ret.st.cache).path}) \cup {ret'.path}
            /\ SelectSeq(ret'.st.cache, LAMBDA e : e.path # ret'.path) =
                  SelectSeq(Tail(ret.st.cache), LAMBDA e : e.path # ret'.path)]_vars

C27_Witness ==
    /\ ret.full
    /\ Len(ret.st.cache) = MAX_CACHE_SIZE

\* C28: with the cache enabled and the files changed only by writeFile and
\* copyFile, readFile(p) returns the content now stored in p.
C28_ReadFileReturnsStoredContent ==
    ret.op = "readFile" => ret.result = ret.st.disk[ret.path]

(***************************************************************************)
(* Claims on the tag links                                                 *)
(***************************************************************************)
\* C26: every tag link of the post cards and post pages, of the tag-index
\* page and of the sitemap resolves to the directory that buildTagPages
\* wrote for that tag, also for tags with spaces, and two distinct tags
\* never share one directory.
C26_TagLinksResolveToTagDirectory ==
    ret.done = {"cards", "dirs", "index", "sitemap"} =>
        /\ \A l \in ret.cards \cup ret.index \cup ret.sitemap :
              \E d \in ret.dirs : d.tag = l.tag /\ d.dir = decodeURIComponent(l.href)
        /\ \A d, e \in ret.dirs : d.dir = e.dir => d.tag = e.tag

(***************************************************************************)
(* Claims on createPost                                                    *)
(***************************************************************************)
\* C25: every successful createPost call creates a new file and leaves
\* every file that was in the posts directory as it was, also when three or
\* more calls have the same title on one day.
C25_CreatePostNeverOverwrites ==
    [][(ret'.calls = ret.calls + 1 /\ ret'.success)
         => (ret.files \subseteq ret'.files /\ ret'.files # ret.files)]_vars

(***************************************************************************)
(* Claims on the caches                                                    *)
(***************************************************************************)
\* the position of the last use of a text in the calls made so far
LastUse(history, key) ==
    CHOOSE i \in 1..Len(history) :
        history[i] = key /\ \A j \in (i + 1)..Len(history) : history[j] # key

\* C24: when an insertion finds the render cache full, the entry evicted
\* is the least recently used one, a hit of renderMarkdown being a use.
C24_RenderCacheEvictsLeastRecentlyUsed ==
    [][\A key \in Range(ret.renderCache) :
          (fpc = "renderMarkdown" /\ key \notin Range(ret'.renderCache))
            => \A other \in Range(ret.renderCache) :
                  LastUse(ret.history, key) <= LastUse(ret.history, other)]_vars


====
